---- MODULE Spec2Model ----
(***************************************************************************)
(* A model of the TinyWebServer core: the byte buffer, the HTTP request    *)
(* parser, the SQL connection pool with its scoped lease, and the worker   *)
(* thread pool.  Byte strings are TLA+ strings (sequences of characters);  *)
(* the character "_" stands for the zero byte.                             *)
(***************************************************************************)
EXTENDS Integers, Sequences, FiniteSets, TLC

VARIABLES
    buff,       \* a Buffer object driven through its public operations
    logBuff,    \* Log::buff_, the Buffer that Log::write formats into
    logPc,      \* position of the thread inside Log::write's second block
    input,      \* the bytes the client sends on one connection
    fed,        \* how many bytes of input have reached readBuff
    recvs,      \* how many reads delivered them
    phase,      \* "recv": the last call was parse; "parse": bytes wait for parse
    readBuff,   \* the connection's read Buffer
    request,    \* the HttpRequest of the connection
    lastRet,    \* what the last HttpRequest::parse call returned
    pre,        \* the parser state and readable bytes the last parse call found
    bad,        \* the rejected lines seen so far, and those of the last call
    oracle,     \* how the SQL driver and undefined behaviour turn out in this run
    userTable,  \* the rows of table user: username -> password
    connQue_,   \* SqlConnPool::connQue_
    semId_,     \* SqlConnPool::semId_
    connected,  \* the connections SqlConnPool::Init pushed, in order
    sqlPc,      \* where each thread stands in UserVerify
    sql,        \* each thread's MYSQL* sql of its current or last call
    uvPath,     \* the exit the last run of UserVerify's queries took
    dead,       \* the process aborted or crashed
    tasks_,     \* ThreadPool::POOL::tasks_
    closed_,    \* ThreadPool::POOL::closed_
    workerPc,   \* where each worker thread of the ThreadPool stands
    mainPc,     \* where the thread that owns the ThreadPool stands
    submitted,  \* the number of tasks AddTask has queued
    started,    \* the tasks taken off tasks_, in order, with the worker
    mtx_,       \* the thread that holds Log::mtx_, or Unlocked
    lineCount_, \* Log::lineCount_
    toDay_,     \* Log::toDay_
    today,      \* the day of the month the clock shows
    deq_,       \* BlockQueue::deq_ of Log::deque_
    isClose_,   \* BlockQueue::isClose_
    isAsync_,   \* Log::isAsync_
    logFiles,   \* the log files opened so far with their lines; fp_ is the last
    wr,         \* where each producer stands in Log::write, and its line
    issued,     \* the number of Log::write calls made
    cons,       \* where the consumer thread stands, and the line it popped
    dtorPc,     \* where the thread that destroys the Log stands
    delivery,   \* for each line, where Log::write put it
    logDead,    \* the process died inside the Log, and where
    resp,       \* the fields of one HttpResponse, and whether it still exists
    fs,         \* what the file system holds under the site root
    maps,       \* the memory mappings: live ones, munmap calls, mmap count
    made,       \* what the last MakeResponse found and appended
    lastOp,     \* the last operation on the HttpResponse
    respOps,    \* the number of operations on the HttpResponse so far
    respReq,    \* the request whose IsKeepAlive answer the last Init was given
    uvLog,      \* the calls of UserVerify made one after the other
    qPc,        \* where each client thread of the BlockQueue stands, and its item
    qPushes,    \* the number of push_back and push_front calls made
    qHist       \* the pushes and pops that took effect, in their order

bufVars == <<buff>>

logBufVars == <<logBuff, logPc>>

parserVars == <<input, fed, recvs, phase, readBuff, request, lastRet, pre, bad, oracle>>

sqlVars == <<userTable, connQue_, semId_>>

uvVars == <<connected, sqlPc, sql, uvPath, dead>>

poolVars == <<tasks_, closed_, workerPc, mainPc, submitted, started>>

logVars == <<mtx_, lineCount_, toDay_, today, deq_, isClose_, isAsync_, logFiles,
             wr, issued, cons, dtorPc, delivery, logDead>>

respVars == <<resp, fs, maps, made, lastOp, respOps, respReq>>

verifyVars == <<uvLog>>

queueVars == <<qPc, qPushes, qHist>>

vars == <<buff, logBuff, logPc, input, fed, recvs, phase, readBuff, request,
          lastRet, pre, bad, oracle, userTable, connQue_, semId_, connected,
          sqlPc, sql, uvPath, dead, tasks_, closed_, workerPc, mainPc,
          submitted, started, mtx_, lineCount_, toDay_, today, deq_, isClose_,
          isAsync_, logFiles, wr, issued, cons, dtorPc, delivery, logDead,
          resp, fs, maps, made, lastOp, respOps, respReq, uvLog, qPc, qPushes, qHist>>

(***************************************************************************)
(* Bounds of the model.                                                    *)
(***************************************************************************)
\* size_t arithmetic is modular; the modulus stands for 2^64
SizeMod == 1073741824
\* the initial size handed to Buffer's constructor
InitBuffSize == 2
\* the largest vector size the generic buffer is driven to
MaxCap == 5
\* the longest chunk appended or read in one call
MaxChunk == 2
\* the initial size of Log::buff_
LogBuffSize == 38
\* the longest formatted log message (the formatter's return value)
MaxMsgLen == 3
\* the initial size of a connection's read buffer
ReadBuffSize == 16
\* the number of reads a request arrives in; the last one brings the rest
MaxRecv == 2
\* the number of connections SqlConnPool::Init is asked for
MaxConn == 2
\* the number of threads that call UserVerify
NumCallers == 3
\* the number of worker threads of the ThreadPool
NumWorkers == 2
\* the number of tasks handed to AddTask
MaxTasks == 3
\* the number of threads that call Log::write
NumLoggers == 2
\* the number of Log::write calls
MaxLogLines == 3
\* Log::MAX_LINES_, the lines a log file may take before the next is opened
MAX_LINES_ == 2
\* BlockQueue::capacity_ of the log queue
capacity_ == 1
\* the last day of the month the clock reaches; Log::init ran on day 1
LastDay == 2
\* the number of Init, MakeResponse and UnmapFile calls on one HttpResponse
MaxRespOps == 4
\* st_size of a file that is not empty
FileSize == 3
\* the number of UserVerify calls made one after the other
MaxVerify == 3
\* the number of threads that call push_back and push_front
NumProducers == 2
\* the number of push_back and push_front calls
MaxPushes == 3

(***************************************************************************)
(* Program constants.                                                      *)
(***************************************************************************)
\* char buff[65536] in Buffer::ReadFd
SCRATCH_LEN == 65536
\* length of "%04d-%02d-%02d %02d:%02d:%02d.%06ld " for a four-digit year
TIME_PREFIX_LEN == 27
\* length of the level title appended by AppendLogLevelTitle_
LEVEL_TITLE_LEN == 9

SizeT(x) == x % SizeMod

\* n copies of the one-character string c
RECURSIVE Fill(_, _)
Fill(c, n) == IF n <= 0 THEN ""
              ELSE IF n = 1 THEN c
              ELSE Fill(c, n \div 2) \o Fill(c, n - (n \div 2))

\* all strings over {"a","b"} of length at most n
RECURSIVE Strs(_)
Strs(n) == IF n = 0 THEN {""}
           ELSE Strs(n - 1) \cup {s \o c : s \in Strs(n - 1), c \in {"a", "b"}}

Chunks == Strs(MaxChunk)

(***************************************************************************)
(* Buffer (src/code/buffer/buffer.cpp).  A buffer is a record              *)
(* [buffer_, readPos_, writePos_]; offsets are 0-based as in the code.     *)
(***************************************************************************)
NewBuffer(initBuffSize) ==
    [buffer_ |-> Fill("_", initBuffSize), readPos_ |-> 0, writePos_ |-> 0]

WritableBytes(b) == SizeT(Len(b.buffer_) - b.writePos_)

ReadableBytes(b) == SizeT(b.writePos_ - b.readPos_)

PrependableBytes(b) == b.readPos_

\* the bytes of [Peek(), BeginWrite())
ReadableStr(b) == SubSeq(b.buffer_, b.readPos_ + 1, b.writePos_)

\* std::copy of data to offset pos of the vector
CopyAt(v, pos, data) ==
    SubSeq(v, 1, pos) \o data \o SubSeq(v, pos + Len(data) + 1, Len(v))

\* a MakeSpace_ that resets the cursors without moving the bytes
MakeSpaceNoMove_(b, len) ==
    IF WritableBytes(b) + PrependableBytes(b) < len
    THEN [b EXCEPT !.buffer_ = @ \o Fill("_", b.writePos_ + len + 1 - Len(@))]
    ELSE [b EXCEPT !.readPos_ = 0, !.writePos_ = ReadableBytes(b)]

MakeSpace_(b, len) ==
    IF WritableBytes(b) + PrependableBytes(b) < len
    THEN [b EXCEPT !.buffer_ =
             IF b.writePos_ + len + 1 >= Len(@)
             THEN @ \o Fill("_", b.writePos_ + len + 1 - Len(@))
             ELSE SubSeq(@, 1, b.writePos_ + len + 1)]
    ELSE LET readable == ReadableBytes(b)
         IN [b EXCEPT !.buffer_ = CopyAt(@, 0, ReadableStr(b)),
                      !.readPos_ = 0,
                      !.writePos_ = readable]

EnsureWriteable(b, len) ==
    IF WritableBytes(b) < len THEN MakeSpace_(b, len) ELSE b

HasWritten(b, len) == [b EXCEPT !.writePos_ = SizeT(@ + len)]

\* a Retrieve that only advances the read cursor
RetrieveNoReset(b, len) == [b EXCEPT !.readPos_ = @ + len]

Retrieve(b, len) ==
    IF b.readPos_ + len = b.writePos_
    THEN [b EXCEPT !.readPos_ = 0, !.writePos_ = 0]
    ELSE [b EXCEPT !.readPos_ = @ + len]

\* end is the offset of the pointer from BeginPtr_()
RetrieveUntil(b, end) == Retrieve(b, end - b.readPos_)

RetrieveAll(b) == [b EXCEPT !.readPos_ = 0, !.writePos_ = 0]

\* Buffer::Append (the name Append is taken by Sequences)
AppendBytes(b, data) ==
    LET e == EnsureWriteable(b, Len(data))
    IN HasWritten([e EXCEPT !.buffer_ = CopyAt(@, e.writePos_, data)], Len(data))

\* readv returned Len(data) >= 0 bytes: the tail is filled first, the rest
\* lands in the stack scratch and is appended
ReadFd(b, data) ==
    LET writable == WritableBytes(b)
        len == Len(data)
    IN IF len <= writable
       THEN [b EXCEPT !.buffer_ = CopyAt(@, b.writePos_, data),
                      !.writePos_ = @ + len]
       ELSE AppendBytes([b EXCEPT !.buffer_ = CopyAt(@, b.writePos_, SubSeq(data, 1, writable)),
                             !.writePos_ = Len(b.buffer_)],
                   SubSeq(data, writable + 1, len))

\* write returned len >= 0
WriteFd(b, len) ==
    IF b.readPos_ + len = b.writePos_
    THEN [b EXCEPT !.readPos_ = 0, !.writePos_ = 0]
    ELSE [b EXCEPT !.readPos_ = @ + len]

(***************************************************************************)
(* The generic buffer driven through its public operations.                *)
(***************************************************************************)
BufAppend ==
    /\ \E data \in Chunks :
           /\ Len(EnsureWriteable(buff, Len(data)).buffer_) <= MaxCap
           /\ buff' = AppendBytes(buff, data)
    /\ UNCHANGED <<logBufVars, parserVars, sqlVars, uvVars, poolVars, logVars, respVars, verifyVars, queueVars>>

BufEnsureWriteable ==
    /\ \E len \in 0..(MaxChunk + 1) :
           /\ Len(EnsureWriteable(buff, len).buffer_) <= MaxCap
           /\ buff' = EnsureWriteable(buff, len)
    /\ UNCHANGED <<logBufVars, parserVars, sqlVars, uvVars, poolVars, logVars, respVars, verifyVars, queueVars>>

\* assert(len <= ReadableBytes())
BufRetrieve ==
    /\ \E len \in 0..ReadableBytes(buff) :
           /\ buff' = Retrieve(buff, len)
    /\ UNCHANGED <<logBufVars, parserVars, sqlVars, uvVars, poolVars, logVars, respVars, verifyVars, queueVars>>

\* assert(Peek() <= end); assert(end <= BeginPtr_() + writePos_)
BufRetrieveUntil ==
    /\ \E end \in buff.readPos_..buff.writePos_ :
           /\ buff' = RetrieveUntil(buff, end)
    /\ UNCHANGED <<logBufVars, parserVars, sqlVars, uvVars, poolVars, logVars, respVars, verifyVars, queueVars>>

BufRetrieveAll ==
    /\ buff' = RetrieveAll(buff)
    /\ UNCHANGED <<logBufVars, parserVars, sqlVars, uvVars, poolVars, logVars, respVars, verifyVars, queueVars>>

\* readv fails (len < 0, nothing changes) or delivers a chunk
BufReadFd ==
    \/ UNCHANGED vars
    \/ /\ \E data \in Chunks :
           /\ Len(data) <= WritableBytes(buff) + SCRATCH_LEN
           /\ Len(ReadFd(buff, data).buffer_) <= MaxCap
           /\ buff' = ReadFd(buff, data)
       /\ UNCHANGED <<logBufVars, parserVars, sqlVars, uvVars, poolVars, logVars, respVars, verifyVars, queueVars>>

\* write fails (len < 0, nothing changes) or takes a prefix of the readable bytes
BufWriteFd ==
    \/ UNCHANGED vars
    \/ /\ \E len \in 0..ReadableBytes(buff) :
           buff' = WriteFd(buff, len)
       /\ UNCHANGED <<logBufVars, parserVars, sqlVars, uvVars, poolVars, logVars, respVars, verifyVars, queueVars>>

(***************************************************************************)
(* Log::write, second block (src/code/log/log.cpp 155-185): the calls it   *)
(* makes on buff_, one step per Buffer call, under Log::mtx_.              *)
(***************************************************************************)
\* n = snprintf(buff_.BeginWrite(), 48, ...); buff_.HasWritten(n)
LogWriteTime ==
    /\ logPc = "idle"
    /\ logBuff' = HasWritten([logBuff EXCEPT !.buffer_ =
                                 CopyAt(@, logBuff.writePos_, Fill("t", TIME_PREFIX_LEN))],
                             TIME_PREFIX_LEN)
    /\ logPc' = "time"
    /\ UNCHANGED <<bufVars, parserVars, sqlVars, uvVars, poolVars, logVars, respVars, verifyVars, queueVars>>

\* AppendLogLevelTitle_(level)
LogWriteTitle ==
    /\ logPc = "time"
    /\ logBuff' = AppendBytes(logBuff, Fill("l", LEVEL_TITLE_LEN))
    /\ logPc' = "title"
    /\ UNCHANGED <<bufVars, parserVars, sqlVars, uvVars, poolVars, logVars, respVars, verifyVars, queueVars>>

\* m = vsnprintf(buff_.BeginWrite(), buff_.WritableBytes(), format, valst):
\* at most WritableBytes() - 1 characters are stored, and m is the length
\* of the whole message; then buff_.HasWritten(m)
LogWriteFormat ==
    /\ logPc = "title"
    /\ \E m \in 0..MaxMsgLen :
        LET writable == WritableBytes(logBuff)
            stored == IF writable = 0 THEN 0
                      ELSE IF m < writable THEN m ELSE writable - 1
        IN logBuff' = HasWritten([logBuff EXCEPT !.buffer_ =
                                     CopyAt(@, logBuff.writePos_, Fill("m", stored))], m)
    /\ logPc' = "format"
    /\ UNCHANGED <<bufVars, parserVars, sqlVars, uvVars, poolVars, logVars, respVars, verifyVars, queueVars>>

\* buff_.Append("\n\0", 2).  With writePos_ beyond the vector the size_t
\* subtraction in WritableBytes() wraps, no space is made and std::copy
\* writes outside the vector: undefined behaviour, which either crashes or
\* goes on with the vector untouched.
LogWriteNewline ==
    /\ logPc = "format"
    /\ IF logBuff.writePos_ + 2 <= Len(EnsureWriteable(logBuff, 2).buffer_)
       THEN /\ logBuff' = AppendBytes(logBuff, "\n_")
            /\ logPc' = "newline"
       ELSE \/ /\ logBuff' = HasWritten(logBuff, 2)
               /\ logPc' = "newline"
            \/ /\ logPc' = "crashed"
               /\ UNCHANGED logBuff
    /\ UNCHANGED <<bufVars, parserVars, sqlVars, uvVars, poolVars, logVars, respVars, verifyVars, queueVars>>

\* push_back(buff_.RetrieveAllToStr()) or fputs(buff_.Peek(), fp_), then
\* buff_.RetrieveAll()
LogWriteDone ==
    /\ logPc = "newline"
    /\ logBuff' = RetrieveAll(logBuff)
    /\ logPc' = "idle"
    /\ UNCHANGED <<bufVars, parserVars, sqlVars, uvVars, poolVars, logVars, respVars, verifyVars, queueVars>>

BufferNext ==
    \/ BufAppend
    \/ BufEnsureWriteable
    \/ BufRetrieve
    \/ BufRetrieveUntil
    \/ BufRetrieveAll
    \/ BufReadFd
    \/ BufWriteFd

LogBufferNext ==
    \/ LogWriteTime
    \/ LogWriteTitle
    \/ LogWriteFormat
    \/ LogWriteNewline
    \/ LogWriteDone

(***************************************************************************)
(* Character strings.                                                      *)
(***************************************************************************)
\* the character at 1-based position i
Ch(s, i) == SubSeq(s, i, i)

Positions(s, c) == {i \in 1..Len(s) : Ch(s, i) = c}

Min(S) == CHOOSE x \in S : \A y \in S : x <= y

Max(S) == CHOOSE x \in S : \A y \in S : x >= y

\* 1-based position of c in the string t, 0 when it is not there
IndexIn(t, c) == IF Positions(t, c) = {} THEN 0 ELSE Min(Positions(t, c))

\* std::search(Peek(), BeginWriteConst(), CRLF, CRLF + 2): the 1-based
\* position of the first CRLF of s, 0 when there is none
SearchCRLF(s) ==
    LET P == {i \in 1..(Len(s) - 1) : SubSeq(s, i, i + 1) = "\r\n"}
    IN IF P = {} THEN 0 ELSE Min(P)

\* m with key k set to v: the map's operator[] followed by an assignment
Put(m, k, v) == (k :> v) @@ m

\* operator[] of a map read as an rvalue: a missing key is inserted with ""
Touch(m, k) == IF k \in DOMAIN m THEN m ELSE Put(m, k, "")

EmptyMap == [k \in {} |-> ""]

(***************************************************************************)
(* SqlConnPool, SqlConnRAII and HttpRequest::UserVerify.                   *)
(***************************************************************************)
nullptr == 0
\* MAP_FAILED, (void *) -1
MAP_FAILED == -1

Oracles == [db : {"ok", "query_fail", "insert_fail"}, ubCrash : BOOLEAN]

DefaultOracle == [db |-> "ok", ubCrash |-> FALSE]

\* the rows of table user when the server starts
InitUsers == ("u" :> "p")

\* the names a form may carry: a registered user and a new one
UserNames == {"u", "n"}

\* connQue_.push(conn) in FreeConn
FreeConn(que, conn) == Append(que, conn)

\* a destructor that gives nothing back
SqlConnRAII_Keep(que, sql_) == que

\* ~SqlConnRAII: FreeConn(sql_) if sql_ is not null
SqlConnRAII_Release(que, sql_) == IF sql_ # nullptr THEN FreeConn(que, sql_) ELSE que

\* UserVerify from the first query on, with a connection in hand.  outcome
\* is "true" or "false" (the value returned) or "crash"; path names the
\* exit taken.  orc.db tells how the driver answers, orc.ubCrash whether
\* undefined behaviour crashes the process.
UserVerifyBody(name, pwd, isLogin, table, orc) ==
    IF orc.db = "query_fail"
    \* mysql_free_result(res) with res never initialised
    THEN [outcome |-> IF orc.ubCrash THEN "crash" ELSE "false",
          table |-> table, path |-> "query_fail"]
    ELSE IF isLogin
    THEN IF name \in DOMAIN table
         \* the loop tests mysql_num_rows(res) > 0 again after the only row
         \* was fetched: mysql_fetch_row returns NULL and row[0] reads
         \* through it, so the call does not return
         THEN [outcome |-> "crash", table |-> table, path |-> "login"]
         ELSE [outcome |-> "false", table |-> table, path |-> "login"]
    ELSE IF name \notin DOMAIN table
         THEN IF orc.db = "insert_fail"
              THEN [outcome |-> "false", table |-> table, path |-> "insert_fail"]
              ELSE [outcome |-> "true", table |-> Put(table, name, pwd),
                    path |-> "register"]
         ELSE [outcome |-> "false", table |-> table, path |-> "exists"]

\* the return of UserVerify: the scoped lease goes out of scope, unless
\* the process died
UserVerifyEnd(r, que, conn) ==
    [outcome |-> r.outcome, table |-> r.table,
     que |-> IF r.outcome = "crash" THEN que ELSE SqlConnRAII_Release(que, conn)]

\* UserVerify run by one thread with nobody else at the pool.  outcome may
\* also be "abort": assert(sql) fails when GetConn returned nullptr (queue
\* empty) or a null entry of the queue.
UserVerify(name, pwd, isLogin, table, que, orc) ==
    IF name = "" \/ pwd = ""
    THEN [outcome |-> "false", table |-> table, que |-> que]
    ELSE IF que = <<>> \/ Head(que) = nullptr
    THEN [outcome |-> "abort", table |-> table,
          que |-> IF que = <<>> THEN que ELSE Tail(que)]
    ELSE UserVerifyEnd(UserVerifyBody(name, pwd, isLogin, table, orc),
                       Tail(que), Head(que))

(***************************************************************************)
(* HttpRequest (src/code/http/httprequest.cpp).                            *)
(***************************************************************************)
DEFAULT_HTML ==
    {"/index", "/register", "/login", "/welcome", "/video", "/picture", "/favicon.ico"}

DEFAULT_HTML_TAG == ("/register.html" :> 0) @@ ("/login.html" :> 1)

\* an IsKeepAlive that does not look at the version
IsKeepAliveAnyVersion(req) ==
    IF "Connection" \in DOMAIN req.header_
    THEN req.header_["Connection"] = "keep-alive"
    ELSE FALSE

\* HttpRequest::IsKeepAlive
IsKeepAlive(req) ==
    IF "Connection" \in DOMAIN req.header_
    THEN req.header_["Connection"] = "keep-alive" /\ req.version_ = "1.1"
    ELSE FALSE

\* HttpRequest::Init
InitRequest ==
    [state_ |-> "REQUEST_LINE", method_ |-> "", path_ |-> "", version_ |-> "",
     body_ |-> "", header_ |-> EmptyMap, post_ |-> EmptyMap]

\* path_.substr(npos) throws std::out_of_range when the path holds no '/'
ParsePath_(path) ==
    IF path = "/" THEN [path |-> "/index.html", threw |-> FALSE]
    ELSE IF Positions(path, "/") = {} THEN [path |-> path, threw |-> TRUE]
    ELSE LET last_slash == Max(Positions(path, "/"))
             last_part == SubSeq(path, last_slash, Len(path))
         IN [path |-> IF last_part \in DEFAULT_HTML THEN path \o ".html" ELSE path,
             threw |-> FALSE]

\* regex_match(line, "^([^ ]*) ([^ ]*) HTTP/([^ ]*)$"): exactly two spaces,
\* the second followed by HTTP/
RequestLineMatch(line) ==
    LET sp == Positions(line, " ")
    IN /\ Cardinality(sp) = 2
       /\ Max(sp) + 5 <= Len(line)
       /\ SubSeq(line, Max(sp) + 1, Max(sp) + 5) = "HTTP/"

\* ok is "true", "false" or "throw"; why names the rejection
ParseRequestLine_(req, line) ==
    IF RequestLineMatch(line)
    THEN LET sp == Positions(line, " ")
             r == [req EXCEPT !.method_ = SubSeq(line, 1, Min(sp) - 1),
                              !.path_ = SubSeq(line, Min(sp) + 1, Max(sp) - 1),
                              !.version_ = SubSeq(line, Max(sp) + 6, Len(line))]
             p == ParsePath_(r.path_)
         IN IF r.method_ = "GET" \/ r.method_ = "POST"
            THEN IF p.threw THEN [req |-> r, ok |-> "throw", why |-> {}]
                 ELSE [req |-> [r EXCEPT !.path_ = p.path], ok |-> "true", why |-> {}]
            ELSE [req |-> r, ok |-> "false", why |-> {"method"}]
    ELSE [req |-> req, ok |-> "false", why |-> {"request_line"}]

\* regex_match(line, "^([^:]*): ?(.*)$"): a colon, and no line terminator
\* after it ('.' does not match \r or \n)
HeaderMatch(line) ==
    /\ Positions(line, ":") # {}
    /\ LET rest == SubSeq(line, Min(Positions(line, ":")) + 1, Len(line))
       IN Positions(rest, "\r") \cup Positions(rest, "\n") = {}

ParseHeader_(req, line) ==
    IF HeaderMatch(line)
    THEN LET c == Min(Positions(line, ":"))
             rest == SubSeq(line, c + 1, Len(line))
             value == IF Len(rest) > 0 /\ Ch(rest, 1) = " "
                      THEN SubSeq(rest, 2, Len(rest)) ELSE rest
         IN [req EXCEPT !.header_ = Put(@, SubSeq(line, 1, c - 1), value)]
    ELSE req

ConverHex(ch) ==
    IF IndexIn("0123456789", ch) > 0 THEN IndexIn("0123456789", ch) - 1
    ELSE IF IndexIn("abcdef", ch) > 0 THEN IndexIn("abcdef", ch) - 1 + 10
    ELSE IF IndexIn("ABCDEF", ch) > 0 THEN IndexIn("ABCDEF", ch) - 1 + 10
    ELSE -1

\* C++ integer division and remainder truncate towards zero
CDiv(a, b) == IF a >= 0 THEN a \div b ELSE -((-a) \div b)

CMod(a, b) == a - b * CDiv(a, b)

\* the character with code '0' + d, for d in -9..25
DigitChar(d) == Ch("'()*+,-./0123456789:;<=>?@ABCDEFGHI", d + 10)

\* body_.substr(j, i - j) with 0-based j
Substr(body, j, i) == SubSeq(body, j + 1, IF i < Len(body) THEN i ELSE Len(body))

\* the loop of ParseFromUrlencoded_ from the state s = [body, post, key, i, j, ub];
\* i and j are 0-based as in the code.  body_[n] is the string's terminator,
\* reading beyond it or writing at or beyond it is undefined: ub records it,
\* and such a write leaves the string's characters as they are.
RECURSIVE UrlLoop(_)
UrlLoop(s) ==
    LET n == Len(s.body)
        at(k) == IF k < n THEN Ch(s.body, k + 1) ELSE "_"
        set(b, k, c) == IF k < n THEN CopyAt(b, k, c) ELSE b
    IN IF ~(s.i < n) THEN s
       ELSE LET ch == at(s.i)
            IN CASE ch = "=" ->
                     UrlLoop([s EXCEPT !.key = Substr(s.body, s.j, s.i),
                                       !.j = s.i + 1, !.i = s.i + 1])
                 [] ch = "+" ->
                     UrlLoop([s EXCEPT !.body = CopyAt(@, s.i, " "), !.i = s.i + 1])
                 [] ch = "%" ->
                     LET num == ConverHex(at(s.i + 1)) * 16 + ConverHex(at(s.i + 2))
                         b2 == set(s.body, s.i + 2, DigitChar(CMod(num, 10)))
                         b1 == set(b2, s.i + 1, DigitChar(CDiv(num, 10)))
                     IN UrlLoop([s EXCEPT !.body = b1, !.i = s.i + 3,
                                          !.ub = @ \/ (s.i + 2 >= n)])
                 [] ch = "&" ->
                     UrlLoop([s EXCEPT !.post = Put(@, s.key, Substr(s.body, s.j, s.i)),
                                       !.key = "", !.j = s.i + 1, !.i = s.i + 1])
                 [] OTHER -> UrlLoop([s EXCEPT !.i = s.i + 1])

\* the handling of the last pair, after the loop
UrlLast(s) ==
    [body |-> s.body, ub |-> s.ub,
     post |-> IF s.key = "" /\ s.j < s.i
              THEN Put(s.post, Substr(s.body, s.j, s.i), "")
              ELSE IF s.key # "" /\ s.j < s.i
              THEN Put(s.post, s.key, Substr(s.body, s.j, s.i))
              ELSE s.post]

ParseFromUrlencoded_(body, post) ==
    IF body = "" THEN [body |-> body, post |-> post, ub |-> FALSE]
    ELSE UrlLast(UrlLoop([body |-> body, post |-> post, key |-> "",
                          i |-> 0, j |-> 0, ub |-> FALSE]))

\* a ParsePost_ that sends every verified form to the welcome page
PostVerifiedWelcome(st, v) ==
    IF v.outcome \in {"crash", "abort"}
    THEN [st EXCEPT !.que = v.que, !.ret = v.outcome]
    ELSE [st EXCEPT !.req.path_ = "/welcome.html", !.table = v.table, !.que = v.que]

\* ParsePost_ after UserVerify answered v: the path is rewritten
PostVerified(st, v) ==
    IF v.outcome \in {"crash", "abort"}
    THEN [st EXCEPT !.que = v.que, !.ret = v.outcome]
    ELSE [st EXCEPT !.req.path_ = IF v.outcome = "true" THEN "/welcome.html"
                                  ELSE "/error.html",
                    !.table = v.table, !.que = v.que]

\* ParsePost_ for the login and register pages; post_["username"] and
\* post_["password"] have been read, which inserts the missing ones
PostVerify(st, orc) ==
    PostVerified(st, UserVerify(st.req.post_["username"], st.req.post_["password"],
                                DEFAULT_HTML_TAG[st.req.path_] = 1,
                                st.table, st.que, orc))

\* ParsePost_ after ParseFromUrlencoded_ returned u
PostDecoded(st, u, orc) ==
    IF u.ub /\ orc.ubCrash
    THEN [st EXCEPT !.req.body_ = u.body, !.req.post_ = u.post, !.ret = "crash"]
    ELSE IF st.req.path_ \notin DOMAIN DEFAULT_HTML_TAG
    THEN [st EXCEPT !.req.body_ = u.body, !.req.post_ = u.post]
    ELSE PostVerify([st EXCEPT !.req.body_ = u.body,
                               !.req.post_ = Touch(Touch(u.post, "username"),
                                                   "password")], orc)

\* ParsePost_ of a POST, header_["Content-Type"] has been read
PostTyped(st, orc) ==
    IF st.req.header_["Content-Type"] # "application/x-www-form-urlencoded"
    THEN st
    ELSE PostDecoded(st, ParseFromUrlencoded_(st.req.body_, st.req.post_), orc)

\* ParsePost_ on st = [req, buf, table, que, why, ret]; ret stays "true"
\* unless the call does not return
ParsePost_(st, orc) ==
    IF st.req.method_ # "POST" THEN st
    ELSE PostTyped([st EXCEPT !.req.header_ = Touch(@, "Content-Type")], orc)

ParseBody_(st, line, orc) ==
    ParsePost_([st EXCEPT !.req = [st.req EXCEPT !.body_ = line]], orc)

\* the loop body in state REQUEST_LINE, r is ParseRequestLine_'s answer
LineParsed(st, r) ==
    IF r.ok = "true"
    THEN [st EXCEPT !.req = [r.req EXCEPT !.state_ = "HEADERS"]]
    ELSE [st EXCEPT !.req = r.req, !.ret = r.ok, !.why = @ \cup r.why]

\* a loop body that ends the request at the empty line, whatever the headers
HeaderLineNoBody(st, line) ==
    IF line = ""
    THEN [st EXCEPT !.req.state_ = "FINISH"]
    ELSE [st EXCEPT !.req = ParseHeader_(@, line),
                    !.why = IF HeaderMatch(line) THEN @ ELSE @ \cup {"header"}]

\* the loop body in state HEADERS
HeaderLine(st, line) ==
    IF line = ""
    THEN [st EXCEPT !.req.state_ = IF "Content-Length" \in DOMAIN st.req.header_
                                   THEN "BODY" ELSE "FINISH"]
    ELSE [st EXCEPT !.req = ParseHeader_(@, line),
                    !.why = IF HeaderMatch(line) THEN @ ELSE @ \cup {"header"}]

\* the loop body in state BODY, b is the state ParseBody_ left
BodyParsed(b) ==
    IF b.ret # "true" THEN b ELSE [b EXCEPT !.req.state_ = "FINISH"]

\* one turn of the loop on a complete line; the line has been retrieved
LoopBody(st, line, orc) ==
    CASE st.req.state_ = "REQUEST_LINE" -> LineParsed(st, ParseRequestLine_(st.req, line))
      [] st.req.state_ = "HEADERS" -> HeaderLine(st, line)
      [] st.req.state_ = "BODY" -> BodyParsed(ParseBody_(st, line, orc))

\* the while loop of HttpRequest::parse; a turn that set ret (return
\* false, an exception, a crash) ends it
RECURSIVE ParseLoop(_, _)
ParseNext(st, orc) == IF st.ret # "true" THEN st ELSE ParseLoop(st, orc)

\* a loop that takes the readable bytes as a line when no CRLF is found
ParseTurnEager(st, pos, orc) ==
    IF pos = 0
    THEN ParseNext(LoopBody([st EXCEPT !.buf = RetrieveAll(@)],
                            ReadableStr(st.buf), orc), orc)
    ELSE ParseNext(LoopBody([st EXCEPT !.buf = RetrieveUntil(@, st.buf.readPos_ + pos + 1)],
                            SubSeq(ReadableStr(st.buf), 1, pos - 1), orc), orc)

ParseTurn(st, pos, orc) ==
    IF pos = 0 THEN st
    ELSE ParseNext(LoopBody([st EXCEPT !.buf = RetrieveUntil(@, st.buf.readPos_ + pos + 1)],
                            SubSeq(ReadableStr(st.buf), 1, pos - 1), orc), orc)

ParseLoop(st, orc) ==
    IF ~(ReadableBytes(st.buf) > 0 /\ st.req.state_ # "FINISH") THEN st
    ELSE ParseTurn(st, SearchCRLF(ReadableStr(st.buf)), orc)

\* HttpRequest::parse: the request, buffer, user table and pool queue after
\* the call, what it returned (ret), and the lines it rejected (why)
parse(req, buf, table, que, orc) ==
    LET st == [req |-> req, buf |-> buf, table |-> table, que |-> que,
               why |-> {}, ret |-> "true"]
    IN IF ReadableBytes(buf) <= 0 THEN [st EXCEPT !.ret = "false"]
       ELSE ParseLoop(st, orc)

(***************************************************************************)
(* One connection: bytes of input arrive in chunks of any size (ReadFd)    *)
(* and HttpRequest::parse is called on the read buffer.                    *)
(***************************************************************************)
\* the requests the client may send
PlainInputs ==
    { "GET / HTTP/1.1\r\n\r\n",
      "GET /login HTTP/1.0\r\nHost: a:b\r\nConnection:keep-alive\r\n\r\nGET",
      "X\r\nGET /a HTTP/1.1\r\n\r\n",
      "PUT /a HTTP/1.1\r\nGET /b HTTP/1.1\r\n\r\n",
      "GET /a HTTP/1.1\r\nno colon\r\nK: v\rw\r\n\r\n",
      "GET a HTTP/1.1\r\n\r\n",
      "POST /a HTTP/1.1\r\nContent-Length: 3\r\n\r\nabc",
      "POST /a HTTP/1.1\r\nContent-Length: 3\r\n\r\nabc\r\n",
      "POST /a HTTP/1.1\r\nContent-Length: 4\r\n\r\na\r\nb\r\n",
      "POST /a HTTP/1.1\r\nContent-Length: 5\r\n\r\nab\r\n" }

FormHead(path, len) ==
    "POST " \o path \o " HTTP/1.1\r\nContent-Type: application/x-www-form-urlencoded\r\n"
    \o "Content-Length: " \o len \o "\r\n\r\n"

\* a login of the registered user
LoginForm == FormHead("/login", "21") \o "username=u&password=p\r\n"

\* a registration of a new user
RegisterForm == FormHead("/register", "21") \o "username=n&password=p\r\n"

\* the requests that reach UserVerify
DbInputs ==
    { LoginForm,
      FormHead("/login", "21") \o "username=n&password=p\r\n",
      RegisterForm,
      FormHead("/register", "21") \o "username=u&password=q\r\n",
      FormHead("/register", "20") \o "username=&password=p\r\n" }

\* form bodies that do not reach UserVerify
FormInputs ==
    { FormHead("/a", "11") \o "a=b+c&d=%41\r\n",
      FormHead("/a", "6") \o "k&x=%4\r\n" }

\* request lines whose paths take every branch of ParsePath_
PathInputs ==
    { "GET  HTTP/1.1\r\n\r\n",
      "GET /d/video HTTP/1.1\r\n\r\n",
      "GET /favicon.ico HTTP/1.1\r\n\r\n",
      "GET /login/ HTTP/1.1\r\n\r\n",
      "POST /index.html HTTP/1.1\r\n\r\n" }

Inputs == PlainInputs \cup DbInputs \cup FormInputs \cup PathInputs

\* requests that differ in their Connection header and their version
KeepAliveInputs ==
    { "GET /a HTTP/1.1\r\nConnection: keep-alive\r\n\r\n",
      "GET /a HTTP/1.0\r\nConnection: keep-alive\r\n\r\n",
      "GET /a HTTP/1.1\r\nConnection: close\r\n\r\n",
      "GET /a HTTP/1.1\r\nHost: h\r\n\r\n" }

\* the request after one parse call on the whole of input i
ParsedRequest(i) ==
    parse(InitRequest, ReadFd(NewBuffer(ReadBuffSize), i), InitUsers,
          [c \in 1..MaxConn |-> c], DefaultOracle).req

\* the requests parsed from them
KeepAliveRequests == {ParsedRequest(i) : i \in KeepAliveInputs}

NoCall == [state_ |-> "none", readable |-> ""]

\* the process is running: no parse call threw, crashed or aborted
Alive == lastRet \notin {"throw", "crash", "abort"}

\* ReadFd delivers the next k bytes of the input
Recv ==
    /\ Alive
    /\ phase = "recv"
    /\ \E k \in 1..(Len(input) - fed) :
        /\ recvs + 1 = MaxRecv => k = Len(input) - fed
        /\ readBuff' = ReadFd(readBuff, SubSeq(input, fed + 1, fed + k))
        /\ fed' = fed + k
    /\ recvs' = recvs + 1
    /\ phase' = "parse"
    /\ UNCHANGED <<input, request, lastRet, pre, bad, oracle>>
    /\ UNCHANGED <<bufVars, logBufVars, sqlVars, uvVars, poolVars, logVars, respVars, verifyVars, queueVars>>

\* the effect of a parse call that answered r
Parsed(r) ==
    /\ request' = r.req
    /\ readBuff' = r.buf
    /\ userTable' = r.table
    /\ connQue_' = r.que
    /\ lastRet' = r.ret
    /\ bad' = [all |-> bad.all \cup r.why, last |-> r.why]

\* request_.parse(readBuff_)
ParseCall ==
    /\ Alive
    /\ phase = "parse"
    /\ Parsed(parse(request, readBuff, userTable, connQue_, oracle))
    /\ pre' = [state_ |-> request.state_, readable |-> ReadableStr(readBuff)]
    /\ phase' = "recv"
    /\ UNCHANGED <<input, fed, recvs, oracle, semId_>>
    /\ UNCHANGED <<bufVars, logBufVars, uvVars, poolVars, logVars, respVars, verifyVars, queueVars>>

ParserNext ==
    \/ Recv
    \/ ParseCall

(***************************************************************************)
(* Threads at the SQL pool.  Each caller runs UserVerify: the scoped       *)
(* lease calls GetConn, the body queries the database, the destructor      *)
(* calls FreeConn.  A step under mtx_ is one action.                       *)
(***************************************************************************)
Callers == 1..NumCallers

\* SqlConnPool::Init: connection i is pushed as i, or as nullptr when
\* mysql_real_connect failed
InitQueues == {q \in [1..MaxConn -> 0..MaxConn] : \A i \in 1..MaxConn : q[i] \in {nullptr, i}}

\* UserVerify is entered; with an empty name or password it returns at once
UvEnter(t) ==
    /\ ~dead
    /\ sqlPc[t] = "idle"
    /\ sql' = [sql EXCEPT ![t] = nullptr]
    /\ \/ UNCHANGED sqlPc
       \/ sqlPc' = [sqlPc EXCEPT ![t] = "GetConn"]
    /\ UNCHANGED <<connected, uvPath, dead>>
    /\ UNCHANGED <<bufVars, logBufVars, parserVars, sqlVars, poolVars, logVars, respVars, verifyVars, queueVars>>

\* the threads whose next step pushes to connQue_ or pops from it
Mutators == {u \in Callers : sqlPc[u] = "pop" \/ (sqlPc[u] = "dtor" /\ sql[u] # nullptr)}

\* connQue_.empty() read without mtx_: the answer is the queue's, but a read
\* that races with another thread's push or pop may give either answer
EmptyAnswers(t) ==
    {connQue_ = <<>>} \cup (IF Mutators \ {t} # {} THEN BOOLEAN ELSE {})

\* GetConn: if(connQue_.empty()) return nullptr;
GetConnTest(t) ==
    /\ ~dead
    /\ sqlPc[t] = "GetConn"
    /\ \E empty \in EmptyAnswers(t) :
           sqlPc' = [sqlPc EXCEPT ![t] = IF empty THEN "assert" ELSE "sem_wait"]
    /\ UNCHANGED <<connected, sql, uvPath, dead>>
    /\ UNCHANGED <<bufVars, logBufVars, parserVars, sqlVars, poolVars, logVars, respVars, verifyVars, queueVars>>

\* a GetConn that goes to the queue without waiting at the semaphore
GetConnNoWait(t) ==
    /\ ~dead
    /\ sqlPc[t] = "sem_wait"
    /\ sqlPc' = [sqlPc EXCEPT ![t] = "pop"]
    /\ UNCHANGED <<userTable, connQue_, semId_, connected, sql, uvPath, dead>>
    /\ UNCHANGED <<bufVars, logBufVars, parserVars, poolVars, logVars, respVars, verifyVars, queueVars>>

\* GetConn: sem_wait(&semId_)
GetConnWait(t) ==
    /\ ~dead
    /\ sqlPc[t] = "sem_wait"
    /\ semId_ > 0
    /\ semId_' = semId_ - 1
    /\ sqlPc' = [sqlPc EXCEPT ![t] = "pop"]
    /\ UNCHANGED <<userTable, connQue_, connected, sql, uvPath, dead>>
    /\ UNCHANGED <<bufVars, logBufVars, parserVars, poolVars, logVars, respVars, verifyVars, queueVars>>

\* GetConn: conn = connQue_.front(); connQue_.pop(); under mtx_.  front()
\* of an empty queue is undefined; the process is taken to die.
GetConnPop(t) ==
    /\ ~dead
    /\ sqlPc[t] = "pop"
    /\ IF connQue_ = <<>>
       THEN /\ dead' = TRUE
            /\ UNCHANGED <<connQue_, sql, sqlPc>>
       ELSE /\ sql' = [sql EXCEPT ![t] = Head(connQue_)]
            /\ connQue_' = Tail(connQue_)
            /\ sqlPc' = [sqlPc EXCEPT ![t] = "assert"]
            /\ UNCHANGED dead
    /\ UNCHANGED <<userTable, semId_, connected, uvPath>>
    /\ UNCHANGED <<bufVars, logBufVars, parserVars, poolVars, logVars, respVars, verifyVars, queueVars>>

\* assert(sql) in UserVerify
UvAssert(t) ==
    /\ ~dead
    /\ sqlPc[t] = "assert"
    /\ IF sql[t] = nullptr
       THEN dead' = TRUE /\ UNCHANGED sqlPc
       ELSE sqlPc' = [sqlPc EXCEPT ![t] = "query"] /\ UNCHANGED dead
    /\ UNCHANGED <<connected, sql, uvPath>>
    /\ UNCHANGED <<bufVars, logBufVars, parserVars, sqlVars, poolVars, logVars, respVars, verifyVars, queueVars>>

\* the effect of the queries of UserVerify that answered r
UvQueried(t, r) ==
    /\ userTable' = r.table
    /\ uvPath' = r.path
    /\ IF r.outcome = "crash"
       THEN dead' = TRUE /\ UNCHANGED sqlPc
       ELSE sqlPc' = [sqlPc EXCEPT ![t] = "dtor"] /\ UNCHANGED dead

\* the queries of UserVerify, for any name, either page and any answer of
\* the driver
UvQuery(t) ==
    /\ ~dead
    /\ sqlPc[t] = "query"
    /\ \E r \in {UserVerifyBody(name, "p", isLogin, userTable, orc) :
                    name \in UserNames, isLogin \in BOOLEAN, orc \in Oracles} :
        UvQueried(t, r)
    /\ UNCHANGED <<connQue_, semId_, connected, sql>>
    /\ UNCHANGED <<bufVars, logBufVars, parserVars, poolVars, logVars, respVars, verifyVars, queueVars>>

\* ~SqlConnRAII at the return of UserVerify: FreeConn pushes under mtx_
UvRelease(t) ==
    /\ ~dead
    /\ sqlPc[t] = "dtor"
    /\ connQue_' = SqlConnRAII_Release(connQue_, sql[t])
    /\ sqlPc' = [sqlPc EXCEPT ![t] = IF sql[t] # nullptr THEN "sem_post" ELSE "idle"]
    /\ UNCHANGED <<userTable, semId_, connected, sql, uvPath, dead>>
    /\ UNCHANGED <<bufVars, logBufVars, parserVars, poolVars, logVars, respVars, verifyVars, queueVars>>

\* FreeConn: sem_post(&semId_); UserVerify has returned
FreeConnPost(t) ==
    /\ ~dead
    /\ sqlPc[t] = "sem_post"
    /\ semId_' = semId_ + 1
    /\ sqlPc' = [sqlPc EXCEPT ![t] = "idle"]
    /\ UNCHANGED <<userTable, connQue_, connected, sql, uvPath, dead>>
    /\ UNCHANGED <<bufVars, logBufVars, parserVars, poolVars, logVars, respVars, verifyVars, queueVars>>

Enter == \E t \in Callers : UvEnter(t)

Test == \E t \in Callers : GetConnTest(t)

Wait == \E t \in Callers : GetConnWait(t)

Pop == \E t \in Callers : GetConnPop(t)

AssertSql == \E t \in Callers : UvAssert(t)

Query == \E t \in Callers : UvQuery(t)

Release == \E t \in Callers : UvRelease(t)

Post == \E t \in Callers : FreeConnPost(t)

SqlNext ==
    \/ Enter
    \/ Test
    \/ Wait
    \/ Pop
    \/ AssertSql
    \/ Query
    \/ Release
    \/ Post

(***************************************************************************)
(* ThreadPool (src/code/pool/threadpool.h).  What a thread does while it   *)
(* holds mutex_ is one action.                                             *)
(***************************************************************************)
Workers == 1..NumWorkers

\* a worker that takes the newest task
TakeNewest(q) == [task |-> q[Len(q)], rest |-> SubSeq(q, 1, Len(q) - 1)]

\* tasks_.front() and tasks_.pop()
TakeTask(q) == [task |-> Head(q), rest |-> Tail(q)]

\* the worker found a task: it pops it and unlocks
WorkerTook(w, d) ==
    /\ tasks_' = d.rest
    /\ started' = Append(started, <<d.task, w>>)
    /\ workerPc' = [workerPc EXCEPT ![w] = "task"]

\* a worker loop that tests closed_ before it looks at the queue
WorkerLoopCloseFirst(w) ==
    /\ workerPc[w] = "ready"
    /\ IF closed_
       THEN /\ workerPc' = [workerPc EXCEPT ![w] = "exit"]
            /\ UNCHANGED <<tasks_, started>>
       ELSE IF tasks_ # <<>>
       THEN WorkerTook(w, TakeTask(tasks_))
       ELSE /\ workerPc' = [workerPc EXCEPT ![w] = "wait"]
            /\ UNCHANGED <<tasks_, started>>
    /\ UNCHANGED <<closed_, mainPc, submitted>>
    /\ UNCHANGED <<bufVars, logBufVars, parserVars, sqlVars, uvVars, logVars, respVars, verifyVars, queueVars>>

\* one turn of the worker's loop, with mutex_ held: take a task, leave
\* when closed, or wait on cond_
WorkerLoop(w) ==
    /\ workerPc[w] = "ready"
    /\ IF tasks_ # <<>>
       THEN WorkerTook(w, TakeTask(tasks_))
       ELSE /\ workerPc' = [workerPc EXCEPT ![w] = IF closed_ THEN "exit" ELSE "wait"]
            /\ UNCHANGED <<tasks_, started>>
    /\ UNCHANGED <<closed_, mainPc, submitted>>
    /\ UNCHANGED <<bufVars, logBufVars, parserVars, sqlVars, uvVars, logVars, respVars, verifyVars, queueVars>>

\* task() returns; the worker goes for the lock again
WorkerDone(w) ==
    /\ workerPc[w] = "task"
    /\ workerPc' = [workerPc EXCEPT ![w] = "ready"]
    /\ UNCHANGED <<tasks_, closed_, mainPc, submitted, started>>
    /\ UNCHANGED <<bufVars, logBufVars, parserVars, sqlVars, uvVars, logVars, respVars, verifyVars, queueVars>>

\* cond_.wait(lock) may return without a notification
WorkerSpurious(w) ==
    /\ workerPc[w] = "wait"
    /\ workerPc' = [workerPc EXCEPT ![w] = "ready"]
    /\ UNCHANGED <<tasks_, closed_, mainPc, submitted, started>>
    /\ UNCHANGED <<bufVars, logBufVars, parserVars, sqlVars, uvVars, logVars, respVars, verifyVars, queueVars>>

\* AddTask: tasks_.emplace(task) under mutex_
AddTask ==
    /\ mainPc = "idle"
    /\ submitted < MaxTasks
    /\ submitted' = submitted + 1
    /\ tasks_' = Append(tasks_, submitted + 1)
    /\ mainPc' = "notify_one"
    /\ UNCHANGED <<closed_, workerPc, started>>
    /\ UNCHANGED <<bufVars, logBufVars, parserVars, sqlVars, uvVars, logVars, respVars, verifyVars, queueVars>>

\* AddTask: cond_.notify_one() wakes one waiting worker, if there is one
NotifyOne ==
    /\ mainPc = "notify_one"
    /\ mainPc' = "idle"
    /\ IF \E w \in Workers : workerPc[w] = "wait"
       THEN \E w \in Workers :
               /\ workerPc[w] = "wait"
               /\ workerPc' = [workerPc EXCEPT ![w] = "ready"]
       ELSE UNCHANGED workerPc
    /\ UNCHANGED <<tasks_, closed_, submitted, started>>
    /\ UNCHANGED <<bufVars, logBufVars, parserVars, sqlVars, uvVars, logVars, respVars, verifyVars, queueVars>>

\* ~ThreadPool: closed_ = true under mutex_
Close ==
    /\ mainPc = "idle"
    /\ mainPc' = "notify_all"
    /\ closed_' = TRUE
    /\ UNCHANGED <<tasks_, workerPc, submitted, started>>
    /\ UNCHANGED <<bufVars, logBufVars, parserVars, sqlVars, uvVars, logVars, respVars, verifyVars, queueVars>>

\* ~ThreadPool: cond_.notify_all()
NotifyAll ==
    /\ mainPc = "notify_all"
    /\ mainPc' = "destroyed"
    /\ workerPc' = [w \in Workers |-> IF workerPc[w] = "wait" THEN "ready" ELSE workerPc[w]]
    /\ UNCHANGED <<tasks_, closed_, submitted, started>>
    /\ UNCHANGED <<bufVars, logBufVars, parserVars, sqlVars, uvVars, logVars, respVars, verifyVars, queueVars>>

Loop == \E w \in Workers : WorkerLoop(w)

Done == \E w \in Workers : WorkerDone(w)

Spurious == \E w \in Workers : WorkerSpurious(w)

PoolNext ==
    \/ Loop
    \/ Done
    \/ Spurious
    \/ AddTask
    \/ NotifyOne
    \/ Close
    \/ NotifyAll

(***************************************************************************)
(* Log and BlockQueue (src/code/log/log.cpp, src/code/log/blockqueue.h).   *)
(* Producer threads call Log::write, the consumer thread runs AsyncWrite_  *)
(* and one thread runs ~Log.  A line is the number of the write call that  *)
(* made it; its text fits the buffer here.  What a thread does while it    *)
(* holds the queue's own mutex is one action; Log::mtx_ is a variable,     *)
(* for Log::flush locks it again in threads that already hold it.          *)
(***************************************************************************)
LogThreads == 1..NumLoggers

\* the thread that runs ~Log, as an owner of mtx_
DtorThread == NumLoggers + 1

\* mtx_ is not held
Unlocked == 0

\* the test at the head of Log::write's first block
RollDue(day) == toDay_ # day \/ (lineCount_ # 0 /\ lineCount_ % MAX_LINES_ = 0)

\* isAsync_ && deque_ && !deque_->full()
UseQueue(async, q) == async /\ ~(Len(q) >= capacity_)

\* fputs(line, fp_): the line goes to the file that is open
Fputs(files, line) == [files EXCEPT ![Len(files)] = Append(@, line)]

\* Log::write is called: the time is read, then the thread goes for mtx_
LogWriteEnter(t) ==
    /\ logDead = "no"
    /\ wr[t].pc = "idle"
    /\ dtorPc # "done"
    /\ issued < MaxLogLines
    /\ issued' = issued + 1
    /\ wr' = [wr EXCEPT ![t] = [pc |-> "block1", day |-> today, line |-> issued + 1, full |-> FALSE]]
    /\ UNCHANGED <<mtx_, lineCount_, toDay_, today, deq_, isClose_, isAsync_, logFiles, cons, dtorPc, delivery, logDead>>
    /\ UNCHANGED <<bufVars, logBufVars, parserVars, sqlVars, uvVars, poolVars, respVars, verifyVars, queueVars>>

\* Log::flush called by a thread that holds mtx_: locking a std::mutex the
\* thread owns is undefined; the thread blocks for ever or the process dies
FlushOwned(hangs, why) ==
    \/ hangs /\ UNCHANGED logDead
    \/ logDead' = why /\ UNCHANGED <<wr, dtorPc>>

\* the first block of Log::write under mtx_: when a roll is due the day and
\* the counter are set and flush() is called before the files are changed
LogBlock1(t) ==
    /\ logDead = "no"
    /\ wr[t].pc = "block1"
    /\ mtx_ = Unlocked
    /\ IF RollDue(wr[t].day)
       THEN /\ toDay_' = wr[t].day
            /\ lineCount_' = IF toDay_ # wr[t].day THEN 0 ELSE lineCount_
            /\ mtx_' = t
            /\ FlushOwned(wr' = [wr EXCEPT ![t].pc = "hung"], "roll")
            /\ UNCHANGED dtorPc
       ELSE /\ wr' = [wr EXCEPT ![t].pc = "block2"]
            /\ UNCHANGED <<toDay_, lineCount_, mtx_, logDead, dtorPc>>
    /\ UNCHANGED <<today, deq_, isClose_, isAsync_, logFiles, issued, cons, delivery>>
    /\ UNCHANGED <<bufVars, logBufVars, parserVars, sqlVars, uvVars, poolVars, respVars, verifyVars, queueVars>>

\* the second block of Log::write: mtx_ is taken, the line is counted and
\* formatted, and the queue is asked whether it is full
LogBlock2(t) ==
    /\ logDead = "no"
    /\ wr[t].pc = "block2"
    /\ mtx_ = Unlocked
    /\ mtx_' = t
    /\ lineCount_' = lineCount_ + 1
    /\ wr' = [wr EXCEPT ![t].pc = IF UseQueue(isAsync_, deq_) THEN "push_back" ELSE "fputs",
                        ![t].full = Len(deq_) >= capacity_]
    /\ UNCHANGED <<toDay_, today, deq_, isClose_, isAsync_, logFiles, issued, cons, dtorPc, delivery, logDead>>
    /\ UNCHANGED <<bufVars, logBufVars, parserVars, sqlVars, uvVars, poolVars, respVars, verifyVars, queueVars>>

\* what is recorded of a delivery: where the line went, and what the
\* producer had found
Delivered(t, to) == [to |-> to, async |-> isAsync_, full |-> wr[t].full]

\* BlockQueue::push_back, then the end of Log::write: the producer waits on
\* condProducer_ while the deque is full
LogPushBack(t) ==
    /\ logDead = "no"
    /\ wr[t].pc \in {"push_back", "wait_space"}
    /\ IF Len(deq_) >= capacity_
       THEN /\ wr' = [wr EXCEPT ![t].pc = "wait_space"]
            /\ UNCHANGED <<deq_, delivery, mtx_>>
       ELSE /\ deq_' = Append(deq_, wr[t].line)
            /\ delivery' = [delivery EXCEPT ![wr[t].line] = Append(@, Delivered(t, "queue"))]
            /\ mtx_' = Unlocked
            /\ wr' = [wr EXCEPT ![t].pc = "idle"]
    /\ UNCHANGED <<lineCount_, toDay_, today, isClose_, isAsync_, logFiles, issued, cons, dtorPc, logDead>>
    /\ UNCHANGED <<bufVars, logBufVars, parserVars, sqlVars, uvVars, poolVars, respVars, verifyVars, queueVars>>

\* fputs(buff_.Peek(), fp_), then the end of Log::write
LogFputs(t) ==
    /\ logDead = "no"
    /\ wr[t].pc = "fputs"
    /\ logFiles' = Fputs(logFiles, wr[t].line)
    /\ delivery' = [delivery EXCEPT ![wr[t].line] = Append(@, Delivered(t, "file"))]
    /\ mtx_' = Unlocked
    /\ wr' = [wr EXCEPT ![t].pc = "idle"]
    /\ UNCHANGED <<lineCount_, toDay_, today, deq_, isClose_, isAsync_, issued, cons, dtorPc, logDead>>
    /\ UNCHANGED <<bufVars, logBufVars, parserVars, sqlVars, uvVars, poolVars, respVars, verifyVars, queueVars>>

\* midnight passes
DayChange ==
    /\ logDead = "no"
    /\ today < LastDay
    /\ today' = today + 1
    /\ UNCHANGED <<mtx_, lineCount_, toDay_, deq_, isClose_, isAsync_, logFiles, wr, issued, cons, dtorPc, delivery, logDead>>
    /\ UNCHANGED <<bufVars, logBufVars, parserVars, sqlVars, uvVars, poolVars, respVars, verifyVars, queueVars>>

\* BlockQueue::pop entered by AsyncWrite_: it waits while the deque is
\* empty or closed, else it takes the front
ConsPop ==
    /\ logDead = "no"
    /\ cons.pc = "pop"
    /\ IF deq_ = <<>> \/ isClose_
       THEN /\ cons' = [cons EXCEPT !.pc = "wait"]
            /\ UNCHANGED deq_
       ELSE /\ cons' = [pc |-> "fputs", item |-> Head(deq_)]
            /\ deq_' = Tail(deq_)
    /\ UNCHANGED <<mtx_, lineCount_, toDay_, today, isClose_, isAsync_, logFiles, wr, issued, dtorPc, delivery, logDead>>
    /\ UNCHANGED <<bufVars, logBufVars, parserVars, sqlVars, uvVars, poolVars, respVars, verifyVars, queueVars>>

\* condConsumer_.wait returns, notified or not: pop returns false when
\* the queue is closed, else it tests the deque again
ConsWake ==
    /\ logDead = "no"
    /\ cons.pc = "wait"
    /\ cons' = [cons EXCEPT !.pc = IF isClose_ THEN "exit" ELSE "pop"]
    /\ UNCHANGED <<mtx_, lineCount_, toDay_, today, deq_, isClose_, isAsync_, logFiles, wr, issued, dtorPc, delivery, logDead>>
    /\ UNCHANGED <<bufVars, logBufVars, parserVars, sqlVars, uvVars, poolVars, respVars, verifyVars, queueVars>>

\* AsyncWrite_: fputs(str.c_str(), fp_) under mtx_
ConsFputs ==
    /\ logDead = "no"
    /\ cons.pc = "fputs"
    /\ mtx_ = Unlocked
    /\ logFiles' = Fputs(logFiles, cons.item)
    /\ cons' = [cons EXCEPT !.pc = "pop"]
    /\ UNCHANGED <<mtx_, lineCount_, toDay_, today, deq_, isClose_, isAsync_, wr, issued, dtorPc, delivery, logDead>>
    /\ UNCHANGED <<bufVars, logBufVars, parserVars, sqlVars, uvVars, poolVars, respVars, verifyVars, queueVars>>

\* ~Log begins: with a writer thread it goes to drain the queue
DtorEnter ==
    /\ logDead = "no"
    /\ dtorPc = "alive"
    /\ dtorPc' = IF isAsync_ THEN "drain" ELSE "file"
    /\ UNCHANGED <<mtx_, lineCount_, toDay_, today, deq_, isClose_, isAsync_, logFiles, wr, issued, cons, delivery, logDead>>
    /\ UNCHANGED <<bufVars, logBufVars, parserVars, sqlVars, uvVars, poolVars, respVars, verifyVars, queueVars>>

\* ~Log: while(!deque_->empty()) deque_->flush();
DtorDrain ==
    /\ logDead = "no"
    /\ dtorPc = "drain"
    /\ dtorPc' = IF deq_ = <<>> THEN "Close" ELSE "drain"
    /\ UNCHANGED <<mtx_, lineCount_, toDay_, today, deq_, isClose_, isAsync_, logFiles, wr, issued, cons, delivery, logDead>>
    /\ UNCHANGED <<bufVars, logBufVars, parserVars, sqlVars, uvVars, poolVars, respVars, verifyVars, queueVars>>

\* BlockQueue::Close: deq_.clear(); isClose_ = true; both conditions are
\* notified
DtorClose ==
    /\ logDead = "no"
    /\ dtorPc = "Close"
    /\ deq_' = <<>>
    /\ isClose_' = TRUE
    /\ dtorPc' = "join"
    /\ UNCHANGED <<mtx_, lineCount_, toDay_, today, isAsync_, logFiles, wr, issued, cons, delivery, logDead>>
    /\ UNCHANGED <<bufVars, logBufVars, parserVars, sqlVars, uvVars, poolVars, respVars, verifyVars, queueVars>>

\* ~Log: writeThread_->join()
DtorJoin ==
    /\ logDead = "no"
    /\ dtorPc = "join"
    /\ cons.pc = "exit"
    /\ dtorPc' = "file"
    /\ UNCHANGED <<mtx_, lineCount_, toDay_, today, deq_, isClose_, isAsync_, logFiles, wr, issued, cons, delivery, logDead>>
    /\ UNCHANGED <<bufVars, logBufVars, parserVars, sqlVars, uvVars, poolVars, respVars, verifyVars, queueVars>>

\* ~Log: if(fp_) { lock_guard locker(mtx_); flush(); fclose(fp_); }
DtorFile ==
    /\ logDead = "no"
    /\ dtorPc = "file"
    /\ mtx_ = Unlocked
    /\ mtx_' = DtorThread
    /\ FlushOwned(dtorPc' = "hung", "dtor")
    /\ UNCHANGED wr
    /\ UNCHANGED <<lineCount_, toDay_, today, deq_, isClose_, isAsync_, logFiles, issued, cons, delivery>>
    /\ UNCHANGED <<bufVars, logBufVars, parserVars, sqlVars, uvVars, poolVars, respVars, verifyVars, queueVars>>

WriteEnter == \E t \in LogThreads : LogWriteEnter(t)

Block1 == \E t \in LogThreads : LogBlock1(t)

Block2 == \E t \in LogThreads : LogBlock2(t)

PushBack == \E t \in LogThreads : LogPushBack(t)

DirectFputs == \E t \in LogThreads : LogFputs(t)

LogNext ==
    \/ WriteEnter
    \/ Block1
    \/ Block2
    \/ PushBack
    \/ DirectFputs
    \/ DayChange
    \/ ConsPop
    \/ ConsWake
    \/ ConsFputs
    \/ DtorEnter
    \/ DtorDrain
    \/ DtorClose
    \/ DtorJoin
    \/ DtorFile

(***************************************************************************)
(* BlockQueue (src/code/log/blockqueue.h) driven by its clients: producer  *)
(* threads that call push_back and push_front, one consumer thread that    *)
(* calls pop in a loop as Log::AsyncWrite_ does, and a thread that calls   *)
(* Close.  What a call does while it holds the queue's mutex is one        *)
(* action; a wait on a condition variable ends when the thread was         *)
(* notified, and may end without a notification.  An item is the number    *)
(* of the push call that brought it.                                       *)
(***************************************************************************)
QProducers == 1..NumProducers

QConsumer == NumProducers + 1

\* a thread that is outside every call
QIdle == [pc |-> "idle", notified |-> FALSE, item |-> 0]

\* the producers that wait on condProducer_
WaitingProducers(p) == {t \in QProducers : p[t].pc \in {"wait_back", "wait_front"}}

\* the consumer, when it waits on condConsumer_
WaitingConsumers(p) == {t \in {QConsumer} : p[t].pc = "wait_item"}

\* the sets of threads a notify_one may wake among the waiting threads W
OneOf(W) == IF W = {} THEN {{}} ELSE {{t} : t \in W}

\* the threads of S have been notified
Notify(p, S) == [t \in DOMAIN p |-> IF t \in S THEN [p[t] EXCEPT !.notified = TRUE] ELSE p[t]]

\* what is recorded of a push and of a pop that took effect
PushEvent(item, atFront) == [op |-> IF atFront THEN "push_front" ELSE "push_back", item |-> item]

PopEvent(item) == [op |-> "pop", item |-> item]

\* deq_.push_back(item) or deq_.push_front(item)
Pushed(q, item, atFront) == IF atFront THEN <<item>> \o q ELSE Append(q, item)

\* a push that does not wait for room
PushNoWait(t, atFront, item) ==
    /\ deq_' = Pushed(deq_, item, atFront)
    /\ qHist' = Append(qHist, PushEvent(item, atFront))
    /\ qPc' = Notify([qPc EXCEPT ![t] = QIdle], WaitingConsumers(qPc))

\* push_back and push_front from the test of the loop on, the mutex held:
\* with the deque full the thread waits on condProducer_, else the item is
\* put in and condConsumer_ is notified
Push(t, atFront, item) ==
    IF Len(deq_) >= capacity_
    THEN /\ qPc' = [qPc EXCEPT ![t] = [pc |-> IF atFront THEN "wait_front" ELSE "wait_back",
                                       notified |-> FALSE, item |-> item]]
         /\ UNCHANGED <<deq_, qHist>>
    ELSE /\ deq_' = Pushed(deq_, item, atFront)
         /\ qHist' = Append(qHist, PushEvent(item, atFront))
         /\ qPc' = Notify([qPc EXCEPT ![t] = QIdle], WaitingConsumers(qPc))

\* BlockQueue::push_back(item) is called
QPushBack(t) ==
    /\ qPc[t].pc = "idle"
    /\ qPushes < MaxPushes
    /\ qPushes' = qPushes + 1
    /\ Push(t, FALSE, qPushes + 1)
    /\ UNCHANGED isClose_
    /\ UNCHANGED <<mtx_, lineCount_, toDay_, today, isAsync_, logFiles, wr, issued, cons, dtorPc, delivery, logDead>>
    /\ UNCHANGED <<bufVars, logBufVars, parserVars, sqlVars, uvVars, poolVars, respVars, verifyVars>>

\* BlockQueue::push_front(item) is called
QPushFront(t) ==
    /\ qPc[t].pc = "idle"
    /\ qPushes < MaxPushes
    /\ qPushes' = qPushes + 1
    /\ Push(t, TRUE, qPushes + 1)
    /\ UNCHANGED isClose_
    /\ UNCHANGED <<mtx_, lineCount_, toDay_, today, isAsync_, logFiles, wr, issued, cons, dtorPc, delivery, logDead>>
    /\ UNCHANGED <<bufVars, logBufVars, parserVars, sqlVars, uvVars, poolVars, respVars, verifyVars>>

\* condProducer_.wait returns in a producer, notified or not, and the loop
\* tests again
QPushWake(t, notified) ==
    /\ qPc[t].pc \in {"wait_back", "wait_front"}
    /\ qPc[t].notified = notified
    /\ Push(t, qPc[t].pc = "wait_front", qPc[t].item)
    /\ UNCHANGED <<isClose_, qPushes>>
    /\ UNCHANGED <<mtx_, lineCount_, toDay_, today, isAsync_, logFiles, wr, issued, cons, dtorPc, delivery, logDead>>
    /\ UNCHANGED <<bufVars, logBufVars, parserVars, sqlVars, uvVars, poolVars, respVars, verifyVars>>

\* a pop that takes the front and notifies nobody
TakeSilent(S) ==
    /\ deq_' = Tail(deq_)
    /\ qHist' = Append(qHist, PopEvent(Head(deq_)))
    /\ qPc' = [qPc EXCEPT ![QConsumer] = [pc |-> "got", notified |-> FALSE, item |-> Head(deq_)]]

\* the end of pop with an item: the front is taken and condProducer_ is
\* notified
Take(S) ==
    /\ deq_' = Tail(deq_)
    /\ qHist' = Append(qHist, PopEvent(Head(deq_)))
    /\ qPc' = Notify([qPc EXCEPT ![QConsumer] = [pc |-> "got", notified |-> FALSE,
                                                 item |-> Head(deq_)]], S)

\* the consumer goes to wait on condConsumer_
WaitForItem ==
    /\ qPc' = [qPc EXCEPT ![QConsumer] = [pc |-> "wait_item", notified |-> FALSE, item |-> 0]]
    /\ UNCHANGED <<deq_, qHist>>

\* BlockQueue::pop from its call to the wait or to its return with an item
pop ==
    IF deq_ = <<>> \/ isClose_ THEN WaitForItem
    ELSE \E S \in OneOf(WaitingProducers(qPc)) : Take(S)

\* while (deque_->pop(str)): the consumer calls pop
QPopEnter ==
    /\ qPc[QConsumer].pc = "idle"
    /\ pop
    /\ UNCHANGED <<isClose_, qPushes>>
    /\ UNCHANGED <<mtx_, lineCount_, toDay_, today, isAsync_, logFiles, wr, issued, cons, dtorPc, delivery, logDead>>
    /\ UNCHANGED <<bufVars, logBufVars, parserVars, sqlVars, uvVars, poolVars, respVars, verifyVars>>

\* condConsumer_.wait returns in pop, notified or not: pop returns false
\* when the queue is closed, and the consumer leaves its loop; else the
\* loop of pop tests again
QPopWake(notified) ==
    /\ qPc[QConsumer].pc = "wait_item"
    /\ qPc[QConsumer].notified = notified
    /\ IF isClose_
       THEN qPc' = [qPc EXCEPT ![QConsumer] = [pc |-> "exit", notified |-> FALSE, item |-> 0]]
            /\ UNCHANGED <<deq_, qHist>>
       ELSE pop
    /\ UNCHANGED <<isClose_, qPushes>>
    /\ UNCHANGED <<mtx_, lineCount_, toDay_, today, isAsync_, logFiles, wr, issued, cons, dtorPc, delivery, logDead>>
    /\ UNCHANGED <<bufVars, logBufVars, parserVars, sqlVars, uvVars, poolVars, respVars, verifyVars>>

\* the body of the consumer's loop is done with the item
QProcess ==
    /\ qPc[QConsumer].pc = "got"
    /\ qPc' = [qPc EXCEPT ![QConsumer] = QIdle]
    /\ UNCHANGED <<deq_, isClose_, qPushes, qHist>>
    /\ UNCHANGED <<mtx_, lineCount_, toDay_, today, isAsync_, logFiles, wr, issued, cons, dtorPc, delivery, logDead>>
    /\ UNCHANGED <<bufVars, logBufVars, parserVars, sqlVars, uvVars, poolVars, respVars, verifyVars>>

\* BlockQueue::Close
QClose ==
    /\ ~isClose_
    /\ deq_' = <<>>
    /\ isClose_' = TRUE
    /\ qPc' = Notify(qPc, WaitingConsumers(qPc) \cup WaitingProducers(qPc))
    /\ UNCHANGED <<qPushes, qHist>>
    /\ UNCHANGED <<mtx_, lineCount_, toDay_, today, isAsync_, logFiles, wr, issued, cons, dtorPc, delivery, logDead>>
    /\ UNCHANGED <<bufVars, logBufVars, parserVars, sqlVars, uvVars, poolVars, respVars, verifyVars>>

QueuePushBack == \E t \in QProducers : QPushBack(t)

QueuePushFront == \E t \in QProducers : QPushFront(t)

QueuePushNotified == \E t \in QProducers : QPushWake(t, TRUE)

QueuePushSpurious == \E t \in QProducers : QPushWake(t, FALSE)

QueuePopNotified == QPopWake(TRUE)

QueuePopSpurious == QPopWake(FALSE)

QueueNext ==
    \/ QueuePushBack
    \/ QueuePushFront
    \/ QueuePushNotified
    \/ QueuePushSpurious
    \/ QPopEnter
    \/ QueuePopNotified
    \/ QueuePopSpurious
    \/ QProcess
    \/ QClose

\* every thread that can take a step takes one in the end; a wait that
\* nobody notifies need not return, and nobody need call push or Close
QueueFairness ==
    /\ WF_vars(QPopEnter)
    /\ WF_vars(QueuePopNotified)
    /\ WF_vars(QProcess)
    /\ \A t \in QProducers : WF_vars(QPushWake(t, TRUE))

(***************************************************************************)
(* HttpResponse (src/code/http/httpresponse.cpp).  One Response object is  *)
(* driven through Init, MakeResponse, UnmapFile and its destructor over a  *)
(* file system that does not change.  A mapping is the number mmap         *)
(* returned for it; what MakeResponse appended to the buffer is recorded   *)
(* by its parts.                                                           *)
(***************************************************************************)
\* what stat() can find at a path: nothing, a directory, a regular file
\* without S_IROTH, an empty readable file, a readable file with bytes
Kinds == {"missing", "dir", "noread", "empty", "file"}

\* the site root, and the empty srcDir_ of a Response before Init
SrcDir == "/www"

RequestPath == "/a"

CODE_STATUS == {200, 400, 403, 404, 500}

CODE_PATH == (400 :> "/400.html") @@ (403 :> "/403.html") @@ (404 :> "/404.html") @@ (500 :> "/500.html")

ErrorPages == {CODE_PATH[c] : c \in DOMAIN CODE_PATH}

\* the file systems: any kind of file at the requested path, and at most
\* one error page missing
FileSystems ==
    {f \in [{RequestPath} \cup ErrorPages -> Kinds] :
        /\ \A p \in ErrorPages : f[p] \in {"missing", "file"}
        /\ \A p, q \in ErrorPages : (f[p] = "missing" /\ f[q] = "missing") => p = q}

\* the codes Init is called with
InitCodes == {-1, 400, 500, 302}

\* the paths Init is called with: that of a request, and the empty path a
\* rejected request line leaves
InitPaths == {RequestPath, ""}

\* what is at srcDir + path; with the empty path that is the site root
Kind(f, dir, path) ==
    IF dir = SrcDir /\ path \in DOMAIN f THEN f[path]
    ELSE IF dir = SrcDir /\ path = "" THEN "dir"
    ELSE "missing"

\* st_size of a file of that kind
StSize(kind) == IF kind \in {"file", "noread", "dir"} THEN FileSize ELSE 0

\* HttpResponse::HttpResponse
NewResponse ==
    [code_ |-> -1, path_ |-> "", srcDir_ |-> "", isKeepAlive_ |-> FALSE,
     mmFile_ |-> nullptr, st_size |-> 0, alive |-> TRUE]

\* nothing was made yet
NotMade ==
    [code |-> -1, path |-> "", dir |-> "", status |-> 0, opened |-> FALSE,
     mapFailed |-> FALSE, inline |-> FALSE, length |-> -1, out |-> ""]

\* the heap of mappings: those that are live, and every munmap call made
NoMaps == [live |-> {}, unmapped |-> <<>>, created |-> 0]

\* HttpResponse::UnmapFile: munmap of a pointer that is no mapping fails
\* and changes nothing
UnmapFile(r, m) ==
    IF r.mmFile_ # nullptr
    THEN [resp |-> [r EXCEPT !.mmFile_ = nullptr],
          maps |-> [m EXCEPT !.live = @ \ {r.mmFile_}, !.unmapped = Append(@, r.mmFile_)]]
    ELSE [resp |-> r, maps |-> m]

\* the state after stat(): a failed call leaves mmFileStat_ as it was
Stat(r, kind) == IF kind = "missing" THEN r ELSE [r EXCEPT !.st_size = StSize(kind)]

\* a choice of status that tests the code before the permission
StatusChoiceCodeFirst(r, kind) ==
    Stat([r EXCEPT !.code_ = IF kind \in {"missing", "dir"} THEN 404
                             ELSE IF r.code_ = -1 THEN 200
                             ELSE IF kind = "noread" THEN 403
                             ELSE r.code_], kind)

\* MakeResponse: the status chosen from the file at srcDir_ + path_
StatusChoice(r, kind) ==
    Stat([r EXCEPT !.code_ = IF kind \in {"missing", "dir"} THEN 404
                             ELSE IF kind = "noread" THEN 403
                             ELSE IF r.code_ = -1 THEN 200
                             ELSE r.code_], kind)

\* HttpResponse::ErrorHtml_, step two: the error page is looked up
ErrorPage(f, r) ==
    IF Kind(f, r.srcDir_, r.path_) = "missing"
    THEN [r EXCEPT !.code_ = 404]
    ELSE Stat(r, Kind(f, r.srcDir_, r.path_))

\* HttpResponse::ErrorHtml_
ErrorHtml_(f, r) ==
    IF r.code_ \in DOMAIN CODE_PATH
    THEN ErrorPage(f, [r EXCEPT !.path_ = CODE_PATH[r.code_]])
    ELSE r

\* HttpResponse::AddStateLine_
AddStateLine_(r) == IF r.code_ \in CODE_STATUS THEN r ELSE [r EXCEPT !.code_ = 400]

\* the reason phrases of CODE_STATUS
StatusText ==
    (200 :> "OK") @@ (400 :> "Bad Request") @@ (403 :> "Forbidden")
    @@ (404 :> "Not Found") @@ (500 :> "Internal Server Error")

SUFFIX_TYPE ==
    (".html" :> "text/html") @@ (".xml" :> "text/xml")
    @@ (".xhtml" :> "application/xhtml+xml") @@ (".txt" :> "text/plain")
    @@ (".rtf" :> "application/rtf") @@ (".pdf" :> "application/pdf")
    @@ (".word" :> "application/msword") @@ (".png" :> "image/png")
    @@ (".gif" :> "image/gif") @@ (".jpg" :> "image/jpeg")
    @@ (".jpeg" :> "image/jpeg") @@ (".au" :> "audio/basic")
    @@ (".mpeg" :> "video/mpeg") @@ (".mpg" :> "video/mpeg")
    @@ (".avi" :> "video/x-msvideo") @@ (".gz" :> "application/x-gzip")
    @@ (".tar" :> "application/x-tar") @@ (".css" :> "text/css")
    @@ (".js" :> "text/javascript")

\* std::to_string of an int that is not negative
RECURSIVE to_string(_)
to_string(n) ==
    IF n < 10 THEN Ch("0123456789", n + 1)
    ELSE to_string(n \div 10) \o Ch("0123456789", (n % 10) + 1)

\* path_.substr(idx) for the last '.' of the path
Suffix(path) == SubSeq(path, Max(Positions(path, ".")), Len(path))

\* HttpResponse::GetFileType_
GetFileType_(path) ==
    IF Positions(path, ".") # {} /\ Suffix(path) \in DOMAIN SUFFIX_TYPE
    THEN SUFFIX_TYPE[Suffix(path)]
    ELSE "text/plain"

\* what AddStateLine_ appends, code_ being a key of CODE_STATUS by then
StateLine(r) == "HTTP/1.1 " \o to_string(r.code_) \o " " \o StatusText[r.code_] \o "\r\n"

\* what HttpResponse::AddHeader_ appends
AddHeader_(r) ==
    "Connection: "
    \o (IF r.isKeepAlive_ THEN "keep-alive\r\n" \o "Keep-Alive: max=6, timeout=120\r\n"
        ELSE "close\r\n")
    \o "Content-Type: " \o GetFileType_(r.path_) \o "\r\n"

\* the page HttpResponse::ErrorContent writes
ErrorBody(r, message) ==
    "<html><title>Error</title>"
    \o "<body bgcolor=\"ffffff\">"
    \o to_string(r.code_) \o " : " \o StatusText[r.code_] \o "\n"
    \o "<p>" \o message \o "</p>"
    \o "<hr><em> Liu's Web Server</em></body></html>"

\* what HttpResponse::ErrorContent appends
ErrorContent(r, message) ==
    "Content-Length: " \o to_string(Len(ErrorBody(r, message))) \o "\r\n"
    \o "Content-Type: text/html\r\n"
    \o "\r\n"
    \o ErrorBody(r, message)

\* the last two Append calls of AddContent_
LengthHeader(r) == "Content-Length: " \o to_string(r.st_size) \o "\r\n" \o "\r\n"

\* open() and mmap() of srcDir_ + path_ succeed
CanOpen(kind, openOk) == kind # "missing" /\ openOk

CanMap(r, kind, mmapOk) == kind # "dir" /\ r.st_size > 0 /\ mmapOk

\* HttpResponse::AddContent_: the new state of the Response and of the
\* mappings, and what was appended to the buffer
AddContent_(r, m, kind, openOk, mmapOk) ==
    IF ~CanOpen(kind, openOk)
    THEN [resp |-> r, maps |-> m,
          made |-> [opened |-> FALSE, mapFailed |-> FALSE, inline |-> TRUE, length |-> -1,
                    text |-> ErrorContent(r, "File Not Found!")]]
    ELSE IF ~CanMap(r, kind, mmapOk)
    THEN [resp |-> [r EXCEPT !.mmFile_ = MAP_FAILED], maps |-> m,
          made |-> [opened |-> TRUE, mapFailed |-> TRUE, inline |-> TRUE, length |-> r.st_size,
                    text |-> ErrorContent(r, "File Not Found!") \o LengthHeader(r)]]
    ELSE [resp |-> [r EXCEPT !.mmFile_ = m.created + 1],
          maps |-> [m EXCEPT !.live = @ \cup {m.created + 1}, !.created = @ + 1],
          made |-> [opened |-> TRUE, mapFailed |-> FALSE, inline |-> FALSE, length |-> r.st_size,
                    text |-> LengthHeader(r)]]

\* MakeResponse from the status line on
Content(r, m, f, openOk, mmapOk) ==
    AddContent_(AddStateLine_(r), m, Kind(f, r.srcDir_, r.path_), openOk, mmapOk)

\* HttpResponse::MakeResponse
MakeResponse(r, m, f, openOk, mmapOk) ==
    Content(ErrorHtml_(f, StatusChoice(r, Kind(f, r.srcDir_, r.path_))), m, f, openOk, mmapOk)

\* the object takes the state d of an operation
RespTakes(d, op) ==
    /\ resp' = d.resp
    /\ maps' = d.maps
    /\ lastOp' = op
    /\ respOps' = respOps + 1

\* HttpResponse::Init(srcDir, path, isKeepAlive, code)
RespInit ==
    /\ resp.alive
    /\ respOps < MaxRespOps
    /\ \E c \in InitCodes, path \in InitPaths, q \in KeepAliveRequests :
        /\ RespTakes([resp |-> [UnmapFile(resp, maps).resp EXCEPT
                                    !.code_ = c, !.isKeepAlive_ = IsKeepAlive(q),
                                    !.srcDir_ = SrcDir, !.path_ = path,
                                    !.mmFile_ = nullptr, !.st_size = 0],
                      maps |-> UnmapFile(resp, maps).maps], "Init")
        /\ respReq' = q
    /\ made' = NotMade
    /\ UNCHANGED fs
    /\ UNCHANGED <<bufVars, logBufVars, parserVars, sqlVars, uvVars, poolVars, logVars, verifyVars, queueVars>>

\* what is recorded of a MakeResponse call: the Response it found and
\* what it appended
Made(r, d) ==
    [code |-> r.code_, path |-> r.path_, dir |-> r.srcDir_, status |-> d.resp.code_,
     opened |-> d.made.opened, mapFailed |-> d.made.mapFailed,
     inline |-> d.made.inline, length |-> d.made.length,
     out |-> StateLine(d.resp) \o AddHeader_(d.resp) \o d.made.text]

RespMade(d) ==
    /\ RespTakes(d, "MakeResponse")
    /\ made' = Made(resp, d)

\* MakeResponse(buff), with either outcome of open() and of mmap()
RespMakeResponse ==
    /\ resp.alive
    /\ respOps < MaxRespOps
    /\ \E openOk, mmapOk \in BOOLEAN : RespMade(MakeResponse(resp, maps, fs, openOk, mmapOk))
    /\ UNCHANGED <<fs, respReq>>
    /\ UNCHANGED <<bufVars, logBufVars, parserVars, sqlVars, uvVars, poolVars, logVars, verifyVars, queueVars>>

\* UnmapFile()
RespUnmapFile ==
    /\ resp.alive
    /\ respOps < MaxRespOps
    /\ RespTakes(UnmapFile(resp, maps), "UnmapFile")
    /\ UNCHANGED <<fs, made, respReq>>
    /\ UNCHANGED <<bufVars, logBufVars, parserVars, sqlVars, uvVars, poolVars, logVars, verifyVars, queueVars>>

\* HttpResponse::~HttpResponse
RespDestroy ==
    /\ resp.alive
    /\ resp' = [UnmapFile(resp, maps).resp EXCEPT !.alive = FALSE]
    /\ maps' = UnmapFile(resp, maps).maps
    /\ lastOp' = "destroy"
    /\ UNCHANGED <<fs, made, respOps, respReq>>
    /\ UNCHANGED <<bufVars, logBufVars, parserVars, sqlVars, uvVars, poolVars, logVars, verifyVars, queueVars>>

RespNext ==
    \/ RespInit
    \/ RespMakeResponse
    \/ RespUnmapFile
    \/ RespDestroy

(***************************************************************************)
(* HttpRequest::UserVerify called again and again by one thread on one     *)
(* user table, with every name, password, page and answer of the driver.   *)
(***************************************************************************)
VerifyNames == {"", "u", "n"}

VerifyPwds == {"p", "q"}

\* what is recorded of a call: its arguments, the table it found and left,
\* and what it returned ("crash": it did not return)
Verified(name, pwd, isLogin, orc, v) ==
    /\ uvLog' = Append(uvLog, [name |-> name, pwd |-> pwd, isLogin |-> isLogin,
                               db |-> orc.db, before |-> userTable,
                               after |-> v.table, outcome |-> v.outcome])
    /\ userTable' = v.table
    /\ connQue_' = v.que
    /\ dead' = (v.outcome \in {"crash", "abort"})

\* one call of UserVerify(name, pwd, isLogin)
VerifyCall ==
    /\ ~dead
    /\ Len(uvLog) < MaxVerify
    /\ \E name \in VerifyNames, pwd \in VerifyPwds, isLogin \in BOOLEAN, orc \in Oracles :
        Verified(name, pwd, isLogin, orc,
                 UserVerify(name, pwd, isLogin, userTable, connQue_, orc))
    /\ UNCHANGED <<semId_, connected, sqlPc, sql, uvPath>>
    /\ UNCHANGED <<bufVars, logBufVars, parserVars, poolVars, logVars, respVars, queueVars>>

VerifyNext == VerifyCall

(***************************************************************************)
(* Specifications.  Each drives one component and leaves the others as     *)
(* they are after construction.                                            *)
(***************************************************************************)
InitBuffer ==
    /\ buff = NewBuffer(InitBuffSize)
    /\ logBuff = NewBuffer(LogBuffSize)
    /\ logPc = "idle"
    /\ input = ""
    /\ oracle = DefaultOracle
    /\ fed = 0
    /\ recvs = 0
    /\ phase = "recv"
    /\ readBuff = NewBuffer(ReadBuffSize)
    /\ request = InitRequest
    /\ lastRet = "none"
    /\ pre = NoCall
    /\ bad = [all |-> {}, last |-> {}]
    /\ userTable = InitUsers
    /\ connQue_ = [i \in 1..MaxConn |-> i]
    /\ semId_ = MaxConn
    /\ connected = [i \in 1..MaxConn |-> i]
    /\ sqlPc = [t \in Callers |-> "idle"]
    /\ sql = [t \in Callers |-> nullptr]
    /\ uvPath = "none"
    /\ dead = FALSE
    /\ tasks_ = <<>>
    /\ closed_ = FALSE
    /\ workerPc = [w \in Workers |-> "ready"]
    /\ mainPc = "idle"
    /\ submitted = 0
    /\ started = <<>>
    /\ mtx_ = Unlocked
    /\ lineCount_ = 0
    /\ toDay_ = 1
    /\ today = 1
    /\ deq_ = <<>>
    /\ isClose_ = FALSE
    /\ isAsync_ = TRUE
    /\ logFiles = <<(<<>>)>>
    /\ wr = [t \in LogThreads |-> [pc |-> "idle", day |-> 1, line |-> 0, full |-> FALSE]]
    /\ issued = 0
    /\ cons = [pc |-> "pop", item |-> 0]
    /\ dtorPc = "alive"
    /\ delivery = [i \in 1..MaxLogLines |-> <<>>]
    /\ logDead = "no"
    /\ resp = NewResponse
    /\ fs = [p \in {RequestPath} \cup ErrorPages |-> "file"]
    /\ maps = NoMaps
    /\ made = NotMade
    /\ lastOp = "new"
    /\ respOps = 0
    /\ respReq = InitRequest
    /\ uvLog = <<>>
    /\ qPc = [t \in 1..(NumProducers + 1) |-> QIdle]
    /\ qPushes = 0
    /\ qHist = <<>>

SpecBuffer == InitBuffer /\ [][BufferNext]_vars

SpecLogBuffer == InitBuffer /\ [][LogBufferNext]_vars

InitParser ==
    /\ buff = NewBuffer(InitBuffSize)
    /\ logBuff = NewBuffer(LogBuffSize)
    /\ logPc = "idle"
    /\ input \in Inputs
    /\ oracle \in Oracles
    /\ oracle.db = "query_fail" => input = LoginForm
    /\ oracle.db = "insert_fail" => input = RegisterForm
    /\ oracle.ubCrash => (oracle.db = "query_fail" \/ input \in FormInputs)
    /\ fed = 0
    /\ recvs = 0
    /\ phase = "recv"
    /\ readBuff = NewBuffer(ReadBuffSize)
    /\ request = InitRequest
    /\ lastRet = "none"
    /\ pre = NoCall
    /\ bad = [all |-> {}, last |-> {}]
    /\ userTable = InitUsers
    /\ connQue_ = [i \in 1..MaxConn |-> i]
    /\ semId_ = MaxConn
    /\ connected = [i \in 1..MaxConn |-> i]
    /\ sqlPc = [t \in Callers |-> "idle"]
    /\ sql = [t \in Callers |-> nullptr]
    /\ uvPath = "none"
    /\ dead = FALSE
    /\ tasks_ = <<>>
    /\ closed_ = FALSE
    /\ workerPc = [w \in Workers |-> "ready"]
    /\ mainPc = "idle"
    /\ submitted = 0
    /\ started = <<>>
    /\ mtx_ = Unlocked
    /\ lineCount_ = 0
    /\ toDay_ = 1
    /\ today = 1
    /\ deq_ = <<>>
    /\ isClose_ = FALSE
    /\ isAsync_ = TRUE
    /\ logFiles = <<(<<>>)>>
    /\ wr = [t \in LogThreads |-> [pc |-> "idle", day |-> 1, line |-> 0, full |-> FALSE]]
    /\ issued = 0
    /\ cons = [pc |-> "pop", item |-> 0]
    /\ dtorPc = "alive"
    /\ delivery = [i \in 1..MaxLogLines |-> <<>>]
    /\ logDead = "no"
    /\ resp = NewResponse
    /\ fs = [p \in {RequestPath} \cup ErrorPages |-> "file"]
    /\ maps = NoMaps
    /\ made = NotMade
    /\ lastOp = "new"
    /\ respOps = 0
    /\ respReq = InitRequest
    /\ uvLog = <<>>
    /\ qPc = [t \in 1..(NumProducers + 1) |-> QIdle]
    /\ qPushes = 0
    /\ qHist = <<>>

SpecParser == InitParser /\ [][ParserNext]_vars


InitSql ==
    /\ buff = NewBuffer(InitBuffSize)
    /\ logBuff = NewBuffer(LogBuffSize)
    /\ logPc = "idle"
    /\ input = ""
    /\ oracle = DefaultOracle
    /\ fed = 0
    /\ recvs = 0
    /\ phase = "recv"
    /\ readBuff = NewBuffer(ReadBuffSize)
    /\ request = InitRequest
    /\ lastRet = "none"
    /\ pre = NoCall
    /\ bad = [all |-> {}, last |-> {}]
    /\ userTable = InitUsers
    /\ connected \in InitQueues
    /\ connQue_ = connected
    /\ semId_ = MaxConn
    /\ sqlPc = [t \in Callers |-> "idle"]
    /\ sql = [t \in Callers |-> nullptr]
    /\ uvPath = "none"
    /\ dead = FALSE
    /\ tasks_ = <<>>
    /\ closed_ = FALSE
    /\ workerPc = [w \in Workers |-> "ready"]
    /\ mainPc = "idle"
    /\ submitted = 0
    /\ started = <<>>
    /\ mtx_ = Unlocked
    /\ lineCount_ = 0
    /\ toDay_ = 1
    /\ today = 1
    /\ deq_ = <<>>
    /\ isClose_ = FALSE
    /\ isAsync_ = TRUE
    /\ logFiles = <<(<<>>)>>
    /\ wr = [t \in LogThreads |-> [pc |-> "idle", day |-> 1, line |-> 0, full |-> FALSE]]
    /\ issued = 0
    /\ cons = [pc |-> "pop", item |-> 0]
    /\ dtorPc = "alive"
    /\ delivery = [i \in 1..MaxLogLines |-> <<>>]
    /\ logDead = "no"
    /\ resp = NewResponse
    /\ fs = [p \in {RequestPath} \cup ErrorPages |-> "file"]
    /\ maps = NoMaps
    /\ made = NotMade
    /\ lastOp = "new"
    /\ respOps = 0
    /\ respReq = InitRequest
    /\ uvLog = <<>>
    /\ qPc = [t \in 1..(NumProducers + 1) |-> QIdle]
    /\ qPushes = 0
    /\ qHist = <<>>

SpecSql == InitSql /\ [][SqlNext]_vars

\* every thread is scheduled again and again, and a task returns
PoolFairness ==
    /\ \A w \in Workers : WF_vars(WorkerLoop(w) \/ WorkerDone(w))
    /\ WF_vars(NotifyOne \/ NotifyAll)

SpecPool == InitBuffer /\ [][PoolNext]_vars /\ PoolFairness

InitLog ==
    /\ buff = NewBuffer(InitBuffSize)
    /\ logBuff = NewBuffer(LogBuffSize)
    /\ logPc = "idle"
    /\ input = ""
    /\ oracle = DefaultOracle
    /\ fed = 0
    /\ recvs = 0
    /\ phase = "recv"
    /\ readBuff = NewBuffer(ReadBuffSize)
    /\ request = InitRequest
    /\ lastRet = "none"
    /\ pre = NoCall
    /\ bad = [all |-> {}, last |-> {}]
    /\ userTable = InitUsers
    /\ connQue_ = [i \in 1..MaxConn |-> i]
    /\ semId_ = MaxConn
    /\ connected = [i \in 1..MaxConn |-> i]
    /\ sqlPc = [t \in Callers |-> "idle"]
    /\ sql = [t \in Callers |-> nullptr]
    /\ uvPath = "none"
    /\ dead = FALSE
    /\ tasks_ = <<>>
    /\ closed_ = FALSE
    /\ workerPc = [w \in Workers |-> "ready"]
    /\ mainPc = "idle"
    /\ submitted = 0
    /\ started = <<>>
    /\ mtx_ = Unlocked
    /\ lineCount_ = 0
    /\ toDay_ = 1
    /\ today = 1
    /\ deq_ = <<>>
    /\ isClose_ = FALSE
    /\ isAsync_ \in BOOLEAN
    /\ logFiles = <<(<<>>)>>
    /\ wr = [t \in LogThreads |-> [pc |-> "idle", day |-> 1, line |-> 0, full |-> FALSE]]
    /\ issued = 0
    /\ cons = [pc |-> IF isAsync_ THEN "pop" ELSE "none", item |-> 0]
    /\ dtorPc = "alive"
    /\ delivery = [i \in 1..MaxLogLines |-> <<>>]
    /\ logDead = "no"
    /\ resp = NewResponse
    /\ fs = [p \in {RequestPath} \cup ErrorPages |-> "file"]
    /\ maps = NoMaps
    /\ made = NotMade
    /\ lastOp = "new"
    /\ respOps = 0
    /\ respReq = InitRequest
    /\ uvLog = <<>>
    /\ qPc = [t \in 1..(NumProducers + 1) |-> QIdle]
    /\ qPushes = 0
    /\ qHist = <<>>

SpecLog == InitLog /\ [][LogNext]_vars

InitResp ==
    /\ buff = NewBuffer(InitBuffSize)
    /\ logBuff = NewBuffer(LogBuffSize)
    /\ logPc = "idle"
    /\ input = ""
    /\ oracle = DefaultOracle
    /\ fed = 0
    /\ recvs = 0
    /\ phase = "recv"
    /\ readBuff = NewBuffer(ReadBuffSize)
    /\ request = InitRequest
    /\ lastRet = "none"
    /\ pre = NoCall
    /\ bad = [all |-> {}, last |-> {}]
    /\ userTable = InitUsers
    /\ connQue_ = [i \in 1..MaxConn |-> i]
    /\ semId_ = MaxConn
    /\ connected = [i \in 1..MaxConn |-> i]
    /\ sqlPc = [t \in Callers |-> "idle"]
    /\ sql = [t \in Callers |-> nullptr]
    /\ uvPath = "none"
    /\ dead = FALSE
    /\ tasks_ = <<>>
    /\ closed_ = FALSE
    /\ workerPc = [w \in Workers |-> "ready"]
    /\ mainPc = "idle"
    /\ submitted = 0
    /\ started = <<>>
    /\ mtx_ = Unlocked
    /\ lineCount_ = 0
    /\ toDay_ = 1
    /\ today = 1
    /\ deq_ = <<>>
    /\ isClose_ = FALSE
    /\ isAsync_ = TRUE
    /\ logFiles = <<(<<>>)>>
    /\ wr = [t \in LogThreads |-> [pc |-> "idle", day |-> 1, line |-> 0, full |-> FALSE]]
    /\ issued = 0
    /\ cons = [pc |-> "pop", item |-> 0]
    /\ dtorPc = "alive"
    /\ delivery = [i \in 1..MaxLogLines |-> <<>>]
    /\ logDead = "no"
    /\ resp = NewResponse
    /\ fs \in FileSystems
    /\ maps = NoMaps
    /\ made = NotMade
    /\ lastOp = "new"
    /\ respOps = 0
    /\ respReq = InitRequest
    /\ uvLog = <<>>
    /\ qPc = [t \in 1..(NumProducers + 1) |-> QIdle]
    /\ qPushes = 0
    /\ qHist = <<>>

SpecResp == InitResp /\ [][RespNext]_vars

SpecVerify == InitBuffer /\ [][VerifyNext]_vars

SpecQueue == InitBuffer /\ [][QueueNext]_vars

SpecQueueFair == InitBuffer /\ [][QueueNext]_vars /\ QueueFairness
(***************************************************************************)
(* C1: after any sequence of buffer operations, including the calls        *)
(* Log::write makes on its buffer, 0 <= readPos_ <= writePos_ <= size.     *)
(***************************************************************************)
CursorsInRange(b) ==
    /\ 0 <= b.readPos_
    /\ b.readPos_ <= b.writePos_
    /\ b.writePos_ <= Len(b.buffer_)

C1_CursorsInRange == CursorsInRange(buff) /\ CursorsInRange(logBuff)


(***************************************************************************)
(* Claims about HttpRequest::parse, stated on the states of SpecParser.    *)
(***************************************************************************)
\* a parse call has returned and the process runs on
Returned == phase = "recv" /\ lastRet \in {"true", "false"}

Fields(r) ==
    [state_ |-> r.state_, method_ |-> r.method_, path_ |-> r.path_,
     version_ |-> r.version_, header_ |-> r.header_, post_ |-> r.post_]

\* one parse call on the whole input, from the state after construction
WholeParse ==
    parse(InitRequest, ReadFd(NewBuffer(ReadBuffSize), input), InitUsers,
          [i \in 1..MaxConn |-> i], oracle)

(***************************************************************************)
(* C2: however the request is split into chunks, with parse called after   *)
(* each chunk, the final parser state and the fields method, path,         *)
(* version, headers and form equal those of one parse call on the whole    *)
(* input.                                                                  *)
(***************************************************************************)
C2_ChunkingEquivalent ==
    (Returned /\ fed = Len(input) /\ WholeParse.ret \in {"true", "false"})
        => Fields(request) = Fields(WholeParse.req)

\* the value of a string of decimal digits
DigitVal(c) ==
    CASE c = "0" -> 0 [] c = "1" -> 1 [] c = "2" -> 2 [] c = "3" -> 3
      [] c = "4" -> 4 [] c = "5" -> 5 [] c = "6" -> 6 [] c = "7" -> 7
      [] c = "8" -> 8 [] c = "9" -> 9

RECURSIVE DecimalVal(_)
DecimalVal(s) ==
    IF s = "" THEN 0
    ELSE 10 * DecimalVal(SubSeq(s, 1, Len(s) - 1)) + DigitVal(SubSeq(s, Len(s), Len(s)))

\* the number of body bytes of the input that have reached the buffer
BodyFed ==
    LET ends == {i \in 1..(Len(input) - 3) : SubSeq(input, i, i + 3) = "\r\n\r\n"}
    IN IF ends = {} THEN 0 ELSE Max({0, fed - (Min(ends) + 3)})

(***************************************************************************)
(* C3: a request with a Content-Length header is in FINISH exactly when    *)
(* Content-Length body bytes have arrived, and then its body is exactly    *)
(* those Content-Length bytes, whether or not they hold or are followed    *)
(* by CRLF; with fewer body bytes the parser stays in BODY.                *)
(***************************************************************************)
C3_BodyByLength ==
    (/\ Returned
     /\ request.state_ \in {"BODY", "FINISH"}
     /\ "Content-Length" \in DOMAIN request.header_)
        => LET n == DecimalVal(request.header_["Content-Length"])
           IN /\ (request.state_ = "FINISH") <=> (BodyFed >= n)
              /\ request.state_ = "FINISH" => Len(request.body_) = n

\* a parse call that finds no CRLF among the readable bytes
PartialParse == ParseCall /\ SearchCRLF(ReadableStr(readBuff)) = 0

(***************************************************************************)
(* C4: a parse call on a buffer whose readable bytes hold no CRLF leaves   *)
(* the parser state, every request field and the buffer (its cursors and   *)
(* its content) as they were.                                              *)
(***************************************************************************)
C4_PartialNonDestructive ==
    [][PartialParse => (request' = request /\ readBuff' = readBuff)]_vars

\* parse has just returned from a buffer that held bytes but no CRLF
C4_PartialParsed ==
    /\ phase = "recv"
    /\ pre.state_ # "none"
    /\ pre.readable # ""
    /\ SearchCRLF(pre.readable) = 0
    /\ lastRet = "true"
    /\ ReadableStr(readBuff) = pre.readable

(***************************************************************************)
(* C5: parse returns true only when the request is completely parsed       *)
(* (state FINISH), and false when it is still incomplete or a line was     *)
(* rejected.                                                               *)
(***************************************************************************)
C5_TrueIffFinished ==
    Returned => ((lastRet = "true") <=> (request.state_ = "FINISH" /\ bad.last = {}))

(***************************************************************************)
(* C6: a malformed request line, a method other than GET and POST, and a   *)
(* non-empty header line that is not of the form key: value each make      *)
(* parse report an error, and the request never reaches FINISH.            *)
(***************************************************************************)
C6_BadLineFails ==
    (phase = "recv" /\ lastRet # "none")
        => /\ bad.last # {} => lastRet = "false"
           /\ bad.all # {} => request.state_ # "FINISH"

(***************************************************************************)
(* Claims about the SQL pool, stated on the states of SpecSql.             *)
(***************************************************************************)
\* thread t holds a connection that GetConn handed out and FreeConn has
\* not yet pushed back
Leased(t) == sqlPc[t] \in {"assert", "query", "dtor"} /\ sql[t] # nullptr

InPool(c) == \E i \in 1..Len(connQue_) : connQue_[i] = c

(***************************************************************************)
(* C7: after Init with size M, whatever the threads do, the number of      *)
(* leased connections plus the number of idle connections in the queue is  *)
(* M, also when Init stored connections that failed to open as null.       *)
(***************************************************************************)
C7_LeasedPlusIdle ==
    Cardinality({t \in Callers : Leased(t)}) + Len(connQue_) = MaxConn

(***************************************************************************)
(* C8: GetConn never returns without a connection: a caller that finds no  *)
(* connection idle waits at the semaphore until FreeConn posts it and      *)
(* then receives a connection.  Stated for a pool whose connections all    *)
(* opened at Init.                                                         *)
(***************************************************************************)
C8_GetConnBlocksIffEmpty ==
    (\A i \in 1..MaxConn : connected[i] # nullptr)
        => \A t \in Callers : sqlPc[t] = "assert" => sql[t] # nullptr

(***************************************************************************)
(* C9: once a UserVerify call has returned, by whichever exit, the         *)
(* connection it leased is back in the pool (idle, or leased again by      *)
(* another thread), and with no call in progress the idle count is what    *)
(* it was before the calls.                                                *)
(***************************************************************************)
C9_LeaseReturned ==
    /\ \A t \in Callers :
          (sqlPc[t] = "idle" /\ sql[t] # nullptr)
              => \/ InPool(sql[t])
                 \/ \E u \in Callers \ {t} : Leased(u) /\ sql[u] = sql[t]
    /\ (~dead /\ \A t \in Callers : sqlPc[t] = "idle") => Len(connQue_) = MaxConn

\* a call whose INSERT failed has returned and the process runs on: no
\* call is in progress and the connection it used is idle again
C9_ReturnedAfterLease ==
    /\ ~dead
    /\ uvPath = "insert_fail"
    /\ \A t \in Callers : sqlPc[t] = "idle"
    /\ \E t \in Callers : sql[t] # nullptr /\ InPool(sql[t])

(***************************************************************************)
(* Claims about the ThreadPool, stated on the behaviours of SpecPool.      *)
(***************************************************************************)
TaskStarted(i) == \E k \in 1..Len(started) : started[k][1] = i

(***************************************************************************)
(* C10: tasks leave the queue in the order AddTask queued them, each task  *)
(* is started once, by one worker, and every queued task is started.       *)
(***************************************************************************)
C10_FifoExactlyOnce ==
    /\ []([k \in 1..Len(started) |-> started[k][1]] \o tasks_ = [i \in 1..submitted |-> i])
    /\ \A i \in 1..MaxTasks : (submitted >= i) ~> TaskStarted(i)

\* every task was started, and not all by the same worker
C10_AllStarted ==
    /\ submitted = MaxTasks
    /\ Len(started) = MaxTasks
    /\ tasks_ = <<>>
    /\ \E j, k \in 1..Len(started) : started[j][2] # started[k][2]

(***************************************************************************)
(* C11: once closed_ is set and broadcast, the workers go on taking tasks  *)
(* until the queue is empty and then every worker leaves its loop: every   *)
(* task queued before the flag was set is started and finished, and no     *)
(* worker stays blocked in cond_.wait.                                     *)
(***************************************************************************)
C11_ShutdownDrains ==
    /\ closed_ ~> (/\ tasks_ = <<>>
                   /\ Len(started) = submitted
                   /\ \A w \in Workers : workerPc[w] = "exit")
    /\ [](mainPc = "destroyed" => \A w \in Workers : workerPc[w] # "wait")
    /\ []((closed_ /\ tasks_ # <<>>) => \A w \in Workers : workerPc[w] # "exit")

\* closed_ was set while tasks were queued and a worker was waiting
C11_ClosedWithWork ==
    /\ closed_
    /\ tasks_ # <<>>
    /\ \E w \in Workers : workerPc[w] = "wait"

(***************************************************************************)
(* C12: every Log::write call delivers its line exactly once, to the queue *)
(* when the log is asynchronous and the queue was not full and to the file *)
(* otherwise, and no producer waits for room in the queue, whatever the    *)
(* producers and the consumer do in between.                               *)
(***************************************************************************)
\* the call that made line i has not come to its end
Running(i) ==
    \E t \in LogThreads :
        /\ wr[t].line = i
        /\ wr[t].pc \in {"block1", "block2", "push_back", "fputs", "wait_space"}

\* the one delivery of line i went where the mode and the queue said
RoutedOnce(d) ==
    /\ Len(d) = 1
    /\ d[1].to = "queue" <=> (d[1].async /\ ~d[1].full)

C12_DeliveredOnce ==
    /\ \A t \in LogThreads : wr[t].pc # "wait_space"
    /\ \A i \in 1..issued : IF Running(i) THEN delivery[i] = <<>> ELSE RoutedOnce(delivery[i])

\* apart from a call that is stuck in the roll of the file, the above holds
C12_DeliveredUnlessStuck ==
    /\ \A t \in LogThreads : wr[t].pc # "wait_space"
    /\ \A i \in 1..issued :
        \/ \E t \in LogThreads : wr[t].line = i /\ wr[t].pc = "hung"
        \/ IF Running(i) THEN delivery[i] = <<>> ELSE RoutedOnce(delivery[i])

(***************************************************************************)
(* C13: the log file is rolled when the day changes or when the line cap   *)
(* is reached, so that no file receives more than MAX_LINES_ lines, in     *)
(* sync mode and in async mode: a write that finds the roll due goes       *)
(* through it, and every file holds at most MAX_LINES_ lines.              *)
(***************************************************************************)
\* no file holds more lines than the cap
AtMostCapLines == \A f \in DOMAIN logFiles : Len(logFiles[f]) <= MAX_LINES_

\* no write call is stuck in the roll, and the process did not die there
RollCompletes == logDead # "roll" /\ \A t \in LogThreads : wr[t].pc # "hung"

C13_RolledAtCap == AtMostCapLines /\ RollCompletes

(***************************************************************************)
(* C14: when the Log is destroyed every line a write call enqueued is      *)
(* written to the file by the consumer: BlockQueue::Close discards none,   *)
(* not even a line enqueued while the destructor runs.                     *)
(***************************************************************************)
\* the lines Log::write put into the queue
Enqueued == {i \in 1..issued : \E k \in DOMAIN delivery[i] : delivery[i][k].to = "queue"}

\* line i is in some log file
InFile(i) == \E f \in DOMAIN logFiles : \E k \in DOMAIN logFiles[f] : logFiles[f][k] = i

\* line i waits in the deque
InQueue(i) == \E k \in DOMAIN deq_ : deq_[k] = i

\* the consumer popped line i and is about to write it
Held(i) == cons.pc = "fputs" /\ cons.item = i

C14_ShutdownDrainsLog ==
    /\ \A i \in Enqueued : InFile(i) \/ InQueue(i) \/ Held(i)
    /\ dtorPc \in {"file", "hung", "done"} => \A i \in Enqueued : InFile(i)

(***************************************************************************)
(* C15: MakeResponse chooses the status for every path and initial code:   *)
(* 404 when srcDir + path is missing or a directory; otherwise 403 when    *)
(* the file is not world-readable; otherwise 200 when the initial code is  *)
(* -1; otherwise the initial code is kept.                                 *)
(***************************************************************************)
\* what the last MakeResponse call found at its path
FoundKind == Kind(fs, made.dir, made.path)

\* the status of the four rules
RuleStatus ==
    IF FoundKind \in {"missing", "dir"} THEN 404
    ELSE IF FoundKind = "noread" THEN 403
    ELSE IF made.code = -1 THEN 200
    ELSE made.code

\* the statement as it stands: the status is the one of the four rules
C15_StatusByRules == lastOp = "MakeResponse" => resp.code_ = RuleStatus

\* the page of an error status is not in the site root
PageMissing(c) ==
    \/ c = 400 /\ Kind(fs, made.dir, "/400.html") = "missing"
    \/ c = 403 /\ Kind(fs, made.dir, "/403.html") = "missing"
    \/ c = 404 /\ Kind(fs, made.dir, "/404.html") = "missing"
    \/ c = 500 /\ Kind(fs, made.dir, "/500.html") = "missing"

\* C15 as the code has it: the status of the four rules, but 404 when that
\* status has an error page and the page is missing, and 400 when that
\* status is none of 200, 400, 403, 404, 500
C15_StatusChosen ==
    lastOp = "MakeResponse" =>
        resp.code_ = IF RuleStatus \notin {200, 400, 403, 404, 500} THEN 400
                     ELSE IF PageMissing(RuleStatus) THEN 404
                     ELSE RuleStatus

\* MakeResponse ran on a readable file with an initial code that has no
\* status text, and answered 400
C15_CodeReplaced ==
    /\ lastOp = "MakeResponse"
    /\ FoundKind \in {"file", "empty"}
    /\ made.code = 302
    /\ resp.code_ = 400

(***************************************************************************)
(* C16: when mmap fails (as it does for an empty file) the response        *)
(* carries the inline error body and no body region: File() is null        *)
(* afterwards, no length of a mapped body is announced, and the failed     *)
(* pointer is never handed to munmap.                                      *)
(***************************************************************************)
C16_MapFailureInline ==
    /\ (lastOp = "MakeResponse" /\ made.mapFailed) =>
            /\ resp.mmFile_ = nullptr
            /\ made.inline
            /\ made.length = -1
    /\ \A k \in DOMAIN maps.unmapped : maps.unmapped[k] # MAP_FAILED

(***************************************************************************)
(* C17: after any sequence of Init, MakeResponse, UnmapFile and the        *)
(* destructor, mmFile_ is null or the one live mapping; every mapping      *)
(* made is released exactly once, and none is live after UnmapFile, Init   *)
(* or the destructor.                                                      *)
(***************************************************************************)
\* the number of munmap calls on mapping id
TimesUnmapped(id) == Cardinality({k \in DOMAIN maps.unmapped : maps.unmapped[k] = id})

C17_MappingOwned ==
    /\ resp.mmFile_ = nullptr \/ maps.live = {resp.mmFile_}
    /\ resp.mmFile_ = nullptr => maps.live = {}
    /\ \A id \in 1..maps.created : TimesUnmapped(id) = IF id \in maps.live THEN 0 ELSE 1
    /\ lastOp \in {"UnmapFile", "Init", "destroy"} => maps.live = {}

(***************************************************************************)
(* C18: UserVerify is a total function of the user table: every call       *)
(* returns; a login returns true iff the table holds a row for the name    *)
(* with that password; a registration returns true iff the table held no   *)
(* row for the name and the row was inserted.                              *)
(***************************************************************************)
\* the call c returned what the table says
AsTheTableSays(c) ==
    /\ c.outcome \in {"true", "false"}
    /\ c.isLogin =>
        (c.outcome = "true" <=> (c.name \in DOMAIN c.before /\ c.before[c.name] = c.pwd))
    /\ ~c.isLogin =>
        (c.outcome = "true" <=> (/\ c.name \notin DOMAIN c.before
                                 /\ c.name \in DOMAIN c.after
                                 /\ c.after[c.name] = c.pwd))

C18_VerifyTotal == \A k \in DOMAIN uvLog : AsTheTableSays(uvLog[k])

\* the above for registrations and for logins of names without a row,
\* when the driver answers every query
C18_VerifyOthers ==
    \A k \in DOMAIN uvLog :
        \/ uvLog[k].db = "query_fail"
        \/ uvLog[k].isLogin /\ uvLog[k].name \in DOMAIN uvLog[k].before
        \/ AsTheTableSays(uvLog[k])

(***************************************************************************)
(* C19: after a completed parse of a POST with Content-Type                *)
(* application/x-www-form-urlencoded whose normalised path is /login.html  *)
(* or /register.html, path_ is /welcome.html when the verification         *)
(* succeeded and /error.html when it did not; for any other method,        *)
(* content type or path, path_ is the normalised path of the request line. *)
(***************************************************************************)
\* the request line of s that the parser accepts, parsed: lines are
\* tried one after the other until one is accepted
RECURSIVE FirstAccepted(_)
FirstAccepted(s) ==
    IF SearchCRLF(s) = 0 THEN InitRequest
    ELSE IF ParseRequestLine_(InitRequest, SubSeq(s, 1, SearchCRLF(s) - 1)).ok = "true"
    THEN ParseRequestLine_(InitRequest, SubSeq(s, 1, SearchCRLF(s) - 1)).req
    ELSE FirstAccepted(SubSeq(s, SearchCRLF(s) + 2, Len(s)))

\* the last parse call returned true with the request complete
Completed == Returned /\ lastRet = "true" /\ request.state_ = "FINISH"

\* the request is a POST of a urlencoded form
IsForm ==
    /\ request.method_ = "POST"
    /\ "Content-Type" \in DOMAIN request.header_
    /\ request.header_["Content-Type"] = "application/x-www-form-urlencoded"

\* the form's user may pass: on the login page the row exists with that
\* password, on the register page no row exists and the insert is done
VerificationSucceeds(page, name, pwd) ==
    /\ name # "" /\ pwd # ""
    /\ oracle.db # "query_fail"
    /\ IF page = "/login.html"
       THEN name \in DOMAIN InitUsers /\ InitUsers[name] = pwd
       ELSE name \notin DOMAIN InitUsers /\ oracle.db = "ok"

\* the path the completed request must show
PathDue(asked) ==
    IF IsForm /\ asked \in {"/login.html", "/register.html"}
    THEN IF VerificationSucceeds(asked, request.post_["username"], request.post_["password"])
         THEN "/welcome.html" ELSE "/error.html"
    ELSE asked

Ascii == "0123456789:;<=>?@ABCDEFGHIJKLMNOPQRSTUVWXYZ"

\* the character with code n
ByteChar(n) == IF n >= 48 /\ n <= 90 THEN Ch(Ascii, n - 47) ELSE "_"

\* the value of a hexadecimal digit, -1 for any other character
HexVal(c) ==
    IF IndexIn("0123456789abcdef", c) > 0 THEN IndexIn("0123456789abcdef", c) - 1
    ELSE IF IndexIn("0123456789ABCDEF", c) > 0 THEN IndexIn("0123456789ABCDEF", c) - 1
    ELSE -1

\* s begins with % and two hexadecimal digits
Escaped(s) == Len(s) >= 3 /\ Ch(s, 1) = "%" /\ HexVal(Ch(s, 2)) >= 0 /\ HexVal(Ch(s, 3)) >= 0

\* the decoded form of s
RECURSIVE UrlDecoded(_)
UrlDecoded(s) ==
    IF s = "" THEN ""
    ELSE IF Escaped(s)
    THEN ByteChar(16 * HexVal(Ch(s, 2)) + HexVal(Ch(s, 3))) \o UrlDecoded(SubSeq(s, 4, Len(s)))
    ELSE IF Ch(s, 1) = "+" THEN " " \o UrlDecoded(SubSeq(s, 2, Len(s)))
    ELSE Ch(s, 1) \o UrlDecoded(SubSeq(s, 2, Len(s)))

\* the pieces of s between the characters c
RECURSIVE SplitOn(_, _)
SplitOn(s, c) ==
    IF IndexIn(s, c) = 0 THEN {s}
    ELSE {SubSeq(s, 1, IndexIn(s, c) - 1)} \cup SplitOn(SubSeq(s, IndexIn(s, c) + 1, Len(s)), c)

\* the body the client sent: what follows the empty line, without the
\* line end that closes it
FormBody ==
    LET P == {i \in 1..(Len(input) - 3) : SubSeq(input, i, i + 3) = "\r\n\r\n"}
    IN IF P = {} THEN "" ELSE SubSeq(input, Min(P) + 4, Len(input) - 2)

\* post_ holds the pair with its value decoded
PairDecoded(pair) ==
    LET key == SubSeq(pair, 1, IndexIn(pair, "=") - 1)
        value == SubSeq(pair, IndexIn(pair, "=") + 1, Len(pair))
    IN key \in DOMAIN request.post_ /\ request.post_[key] = UrlDecoded(value)

C20_FormDecoded ==
    (Completed /\ IsForm) =>
        \A pair \in SplitOn(FormBody, "&") : IndexIn(pair, "=") > 0 => PairDecoded(pair)

\* the above for the pairs without a % in them
C20_PlainAndPlusDecoded ==
    (Completed /\ IsForm) =>
        \A pair \in SplitOn(FormBody, "&") :
            (IndexIn(pair, "=") > 0 /\ IndexIn(pair, "%") = 0) => PairDecoded(pair)

(***************************************************************************)
(* C21: for every request line the parser accepts (method GET or POST)     *)
(* the stored path is the normalisation of the path in the line: / gives   *)
(* /index.html, a path whose last segment is one of /index, /login,        *)
(* /register, /welcome, /video, /picture, /favicon.ico gains .html, any    *)
(* other path is unchanged.  The normalisation completes for every         *)
(* accepted path, also an empty one or one without a slash, and doing it   *)
(* twice gives what doing it once gives.                                   *)
(***************************************************************************)
\* the last parse call found the parser in REQUEST_LINE with a whole line
RequestLineSeen ==
    phase = "recv" /\ pre.state_ = "REQUEST_LINE" /\ SearchCRLF(pre.readable) > 0

\* that line
SeenLine == SubSeq(pre.readable, 1, SearchCRLF(pre.readable) - 1)

\* the three fields of a line of the form "method path HTTP/version"
LineMethod(line) == SubSeq(line, 1, Min(Positions(line, " ")) - 1)

LinePath(line) == SubSeq(line, Min(Positions(line, " ")) + 1, Max(Positions(line, " ")) - 1)

LineVersion(line) == SubSeq(line, Max(Positions(line, " ")) + 6, Len(line))

\* the line has the form of a request line and a method that is served
AcceptedLine(line) == RequestLineMatch(line) /\ LineMethod(line) \in {"GET", "POST"}

\* the part of p from its last slash on, nothing when p has no slash
LastSegment(p) ==
    IF Positions(p, "/") = {} THEN "" ELSE SubSeq(p, Max(Positions(p, "/")), Len(p))

\* the path that is due for the path p of a request line
Normalised(p) ==
    IF p = "/" THEN "/index.html"
    ELSE IF LastSegment(p) \in {"/index", "/login", "/register", "/welcome",
                                "/video", "/picture", "/favicon.ico"}
    THEN p \o ".html"
    ELSE p

\* the form of the request was verified in the same call and the path
\* replaced by the page that tells the outcome
FormAnswered(asked) ==
    /\ IsForm
    /\ request.state_ = "FINISH"
    /\ asked \in {"/login.html", "/register.html"}
    /\ request.path_ \in {"/welcome.html", "/error.html"}

\* the path stored for the line is the normalised one
StoredNormalised(line) ==
    /\ request.path_ = Normalised(LinePath(line)) \/ FormAnswered(Normalised(LinePath(line)))
    /\ Normalised(Normalised(LinePath(line))) = Normalised(LinePath(line))
    /\ ~ParsePath_(LinePath(line)).threw =>
           ParsePath_(ParsePath_(LinePath(line)).path) = ParsePath_(LinePath(line))

C21_PathNormalised ==
    (RequestLineSeen /\ AcceptedLine(SeenLine)) =>
        lastRet # "throw" /\ StoredNormalised(SeenLine)

\* the above for the calls in which ParsePath_ returned
C21_NormalisedWhenReturned ==
    (RequestLineSeen /\ AcceptedLine(SeenLine) /\ lastRet # "throw") =>
        StoredNormalised(SeenLine)

\* a line whose path gained .html was accepted
C21_SuffixAdded ==
    /\ RequestLineSeen
    /\ AcceptedLine(SeenLine)
    /\ lastRet = "true"
    /\ request.path_ = LinePath(SeenLine) \o ".html"

(***************************************************************************)
(* Claims about the text of a response, stated on the states of SpecResp.  *)
(***************************************************************************)
\* the lines of s before its first empty line, the status line first
RECURSIVE HeadLines(_)
HeadLinesFrom(s, k) ==
    IF k <= 1 THEN <<>>
    ELSE <<SubSeq(s, 1, k - 1)>> \o HeadLines(SubSeq(s, k + 2, Len(s)))

HeadLines(s) == HeadLinesFrom(s, SearchCRLF(s))

\* the bytes of s after its first empty line
AfterHead(s) ==
    LET P == {i \in 1..(Len(s) - 3) : SubSeq(s, i, i + 3) = "\r\n\r\n"}
    IN IF P = {} THEN "" ELSE SubSeq(s, Min(P) + 4, Len(s))

\* s begins with the string p
StartsWith(s, p) == Len(s) >= Len(p) /\ SubSeq(s, 1, Len(p)) = p

\* the header lines of the response that begin with p
LinesWith(lines, p) == {i \in 2..Len(lines) : StartsWith(lines[i], p)}

HeadersWith(p) == LinesWith(HeadLines(made.out), p)

\* the response has the header line
HasLine(lines, line) == \E i \in 2..Len(lines) : lines[i] = line

HasHeader(line) == HasLine(HeadLines(made.out), line)

\* the request has header Connection with value keep-alive and version 1.1
AsksKeepAlive(req) ==
    /\ "Connection" \in DOMAIN req.header_
    /\ req.header_["Connection"] = "keep-alive"
    /\ req.version_ = "1.1"

C22_ClosedForOldVersion ==
    /\ lastOp = "MakeResponse"
    /\ "Connection" \in DOMAIN respReq.header_
    /\ respReq.header_["Connection"] = "keep-alive"
    /\ respReq.version_ = "1.0"
    /\ ~resp.isKeepAlive_
    /\ HasHeader("Connection: close")

(***************************************************************************)
(* C23: in every reachable state of a buffer, readPos_ = writePos_         *)
(* implies that both are 0; so they are after Retrieve of all readable     *)
(* bytes, after RetrieveAll and after a WriteFd that drains the buffer.    *)
(***************************************************************************)
C23_EmptyMeansReset ==
    buff.readPos_ = buff.writePos_ => (buff.readPos_ = 0 /\ buff.writePos_ = 0)

\* bytes were appended and all of them were taken out again, after which
\* the buffer has grown
C23_Drained ==
    /\ buff.readPos_ = 0
    /\ buff.writePos_ = 0
    /\ Ch(buff.buffer_, 1) # "_"
    /\ Len(buff.buffer_) > InitBuffSize

(***************************************************************************)
(* C24: the parser state only moves forward along REQUEST_LINE, HEADERS,   *)
(* BODY, FINISH: a header line keeps it in HEADERS, the empty line in      *)
(* HEADERS leads to BODY exactly when a Content-Length header has been     *)
(* stored and to FINISH otherwise, and in FINISH a parse call changes      *)
(* neither the state nor the buffer.                                       *)
(***************************************************************************)
StateRank(s) ==
    CASE s = "REQUEST_LINE" -> 1 [] s = "HEADERS" -> 2 [] s = "BODY" -> 3 [] s = "FINISH" -> 4

\* the number of bytes of the input up to the end of its first empty line
HeadLength ==
    LET P == {i \in 1..(Len(input) - 3) : SubSeq(input, i, i + 3) = "\r\n\r\n"}
    IN IF P = {} THEN Len(input) + 1 ELSE Min(P) + 3

\* the number of bytes of the input that parse has taken out of buffer b
Consumed(b) == fed - ReadableBytes(b)

\* where the state stands after the call agrees with the lines taken
StateFollowsLines ==
    /\ request'.state_ \in {"REQUEST_LINE", "HEADERS"} => Consumed(readBuff') < HeadLength
    /\ request'.state_ = "BODY" =>
           Consumed(readBuff') = HeadLength /\ "Content-Length" \in DOMAIN request'.header_
    /\ request'.state_ = "FINISH" =>
           IF "Content-Length" \in DOMAIN request'.header_
           THEN Consumed(readBuff') > HeadLength
           ELSE Consumed(readBuff') = HeadLength

C24_ForwardOnly ==
    [][ParseCall =>
          /\ StateRank(request'.state_) >= StateRank(request.state_)
          /\ request.state_ = "FINISH" => (request' = request /\ readBuff' = readBuff)
          /\ lastRet' \in {"true", "false"} => StateFollowsLines]_vars

\* parse was called on a request in FINISH with bytes in the buffer
C24_ParsedInFinish ==
    /\ phase = "recv"
    /\ pre.state_ = "FINISH"
    /\ pre.readable # ""
    /\ request.state_ = "FINISH"

\* a call found the request in HEADERS and left it in BODY
C24_HeadersToBody ==
    /\ phase = "recv"
    /\ pre.state_ = "HEADERS"
    /\ request.state_ = "BODY"

(***************************************************************************)
(* C25: after EnsureWriteable(len) WritableBytes() is at least len, and    *)
(* readPos_ and writePos_ are what they were before the call.              *)
(***************************************************************************)
\* the step is a call EnsureWriteable(len) on the buffer
EnsuresWriteable(len) == BufEnsureWriteable /\ buff' = EnsureWriteable(buff, len)

C25_EnsureWriteableFrame ==
    [][\A len \in 0..(MaxChunk + 1) :
          EnsuresWriteable(len) =>
              /\ WritableBytes(buff') >= len
              /\ buff'.readPos_ = buff.readPos_
              /\ buff'.writePos_ = buff.writePos_]_vars

\* the first half of the above: there is room for len bytes
C25_WritableEnough ==
    [][\A len \in 0..(MaxChunk + 1) :
          EnsuresWriteable(len) => WritableBytes(buff') >= len]_vars

\* the readable bytes are the same after the call
C25_ReadableKept ==
    [][BufEnsureWriteable => ReadableStr(buff') = ReadableStr(buff)]_vars

(***************************************************************************)
(* C26: appending n bytes, by Append or by a ReadFd that returns n (also   *)
(* with n larger than the writable tail), leaves as readable bytes the     *)
(* bytes that were readable followed by the n new bytes in their order.    *)
(* When room must be made for need bytes, the vector is resized to         *)
(* writePos_ + need + 1 if (size - writePos_) + readPos_ < need, and       *)
(* otherwise the readable bytes are moved to offset 0.                     *)
(***************************************************************************)
\* room was made for need bytes in b, whose write cursor stood at write,
\* and a is the buffer after the bytes were added
GrownByPolicy(b, write, need, a) ==
    IF (Len(b.buffer_) - write) + b.readPos_ < need
    THEN Len(a.buffer_) = write + need + 1 /\ a.readPos_ = b.readPos_
    ELSE Len(a.buffer_) = Len(b.buffer_) /\ a.readPos_ = 0

\* a holds what b held and then data; need of its bytes did not fit the
\* tail that began at write
Appended(b, write, need, data, a) ==
    /\ ReadableStr(a) = ReadableStr(b) \o data
    /\ ReadableBytes(a) = ReadableBytes(b) + Len(data)
    /\ IF need > Len(b.buffer_) - write
       THEN GrownByPolicy(b, write, need, a)
       ELSE Len(a.buffer_) = Len(b.buffer_) /\ a.readPos_ = b.readPos_

C26_AppendKeepsBytes ==
    [][\A data \in Chunks :
          /\ (buff' = AppendBytes(buff, data) /\ BufAppend) =>
                 Appended(buff, buff.writePos_, Len(data), data, buff')
          /\ (buff' = ReadFd(buff, data) /\ BufReadFd) =>
                 IF Len(data) <= WritableBytes(buff)
                 THEN Appended(buff, buff.writePos_, Len(data), data, buff')
                 ELSE Appended(buff, Len(buff.buffer_), Len(data) - WritableBytes(buff),
                               data, buff')]_vars

\* more bytes are readable than the vector first held
C26_GrownWithBytes ==
    /\ Len(buff.buffer_) > InitBuffSize
    /\ ReadableBytes(buff) > InitBuffSize
    /\ buff.readPos_ = 0

(***************************************************************************)
(* C27: a response whose initial code is 400, the parser having rejected   *)
(* the request, has the status line HTTP/1.1 400 Bad Request, whatever     *)
(* path the rejected request left: the empty path, the path of no file,    *)
(* or that of a file.                                                      *)
(***************************************************************************)
\* the first line of the response
StatusLine == HeadLines(made.out)[1]

C27_BadRequestStatus ==
    (lastOp = "MakeResponse" /\ made.code = 400) => StatusLine = "HTTP/1.1 400 Bad Request"

\* the above when the path left is that of a file all may read and the
\* page for 400 exists
C27_BadRequestForReadableFile ==
    (/\ lastOp = "MakeResponse"
     /\ made.code = 400
     /\ FoundKind \in {"file", "empty"}
     /\ Kind(fs, made.dir, "/400.html") # "missing")
        => StatusLine = "HTTP/1.1 400 Bad Request"

\* a response with initial code 400 and the empty path was made
C27_BadRequestEmptyPath ==
    lastOp = "MakeResponse" /\ made.code = 400 /\ made.path = "" /\ made.dir = SrcDir

(***************************************************************************)
(* C28: whatever the order in which the producers' push_back and           *)
(* push_front calls and the consumer's pop calls take their steps, the     *)
(* queue never holds more items than the capacity it was made with.        *)
(***************************************************************************)
C28_QueueBounded == Len(deq_) <= capacity_

\* the queue is full, one producer waits in push_front and another in
\* push_back
C28_FullWithWaiters ==
    /\ Len(deq_) = capacity_
    /\ \E t \in QProducers : qPc[t].pc = "wait_front"
    /\ \E t \in QProducers : qPc[t].pc = "wait_back"

(***************************************************************************)
(* C29: once Close has been called every pop returns false in finite       *)
(* time, the pop that was waiting and the pop called afterwards; so the    *)
(* consumer thread leaves its loop and the join of the destructor          *)
(* returns.                                                                *)
(***************************************************************************)
C29_ClosedPopReturns == isClose_ ~> (qPc[QConsumer].pc = "exit")

\* the above for a pop that was waiting when Close was called
C29_WaitingPopReturns ==
    (isClose_ /\ qPc[QConsumer].pc = "wait_item" /\ qPc[QConsumer].notified)
        ~> (qPc[QConsumer].pc = "exit")

\* the consumer waits in a pop that it called after Close, and nothing
\* is left that would notify it
C29_StuckAfterClose ==
    /\ isClose_
    /\ qPc[QConsumer].pc = "wait_item"
    /\ ~qPc[QConsumer].notified
    /\ \A t \in QProducers : qPc[t].pc = "idle"
    /\ qPushes = MaxPushes

(***************************************************************************)
(* C30: every response MakeResponse produces has exactly one               *)
(* Content-Length header, and its value is the number of body bytes that   *)
(* follow the empty line: the length of the mapped file, or the length of  *)
(* the error page written into the buffer; so it is when the file is       *)
(* mapped, when it cannot be opened and when it cannot be mapped.          *)
(***************************************************************************)
\* the bytes that follow the empty line: those in the buffer, and those
\* of the file that is mapped
BodyBytes ==
    Len(AfterHead(made.out))
    + (IF resp.mmFile_ \in maps.live THEN StSize(Kind(fs, resp.srcDir_, resp.path_)) ELSE 0)

\* the value of header line i, which begins with "Content-Length: "
LengthValue(i) == DecimalVal(SubSeq(HeadLines(made.out)[i], 17, Len(HeadLines(made.out)[i])))

\* one Content-Length header, which tells the number of body bytes
LengthHeaderRight ==
    /\ Cardinality(HeadersWith("Content-Length: ")) = 1
    /\ \A i \in HeadersWith("Content-Length: ") : LengthValue(i) = BodyBytes

C30_ContentLengthRight == lastOp = "MakeResponse" => LengthHeaderRight

\* the above for the responses whose file was mapped or could not be
\* opened, the Response holding no mapping of an earlier call
C30_RightUnlessMapFailed ==
    (/\ lastOp = "MakeResponse"
     /\ ~made.mapFailed
     /\ made.opened \/ resp.mmFile_ = nullptr) => LengthHeaderRight

\* a file was mapped, and the header tells its length
C30_MappedFileLength ==
    /\ lastOp = "MakeResponse"
    /\ resp.mmFile_ \in maps.live
    /\ HasHeader("Content-Length: " \o to_string(FileSize))

(***************************************************************************)
(* C31: no Log operation tries to acquire mtx_ while its thread holds it:  *)
(* no call of Log::write, also when it rolls the file, and no run of ~Log  *)
(* ends blocked on its own lock or with the process dead of it.            *)
(***************************************************************************)
\* the threads that called flush() while they held mtx_
SelfLocked ==
    {t \in LogThreads : wr[t].pc = "hung"} \cup (IF dtorPc = "hung" THEN {DtorThread} ELSE {})

C31_NoSelfLock == SelfLocked = {} /\ logDead = "no"

\* a write that found a roll due is blocked in flush() on the lock it holds
C31_RollSelfLocked == \E t \in LogThreads : t \in SelfLocked /\ mtx_ = t

\* ~Log is blocked in flush() on the lock it holds
C31_DtorSelfLocked == DtorThread \in SelfLocked /\ mtx_ = DtorThread

(***************************************************************************)
(* C32: under any interleaving of GetConn and FreeConn by several threads  *)
(* the semaphore count, together with the threads that have passed         *)
(* sem_wait and not yet popped, never exceeds the number of queued         *)
(* connections, so that no front/pop meets an empty queue; and no          *)
(* connection is held by two threads at once, nor held while it is queued. *)
(***************************************************************************)
\* the threads between sem_wait and the pop under mtx_
Popping == {t \in Callers : sqlPc[t] = "pop"}

\* the threads that hold the connection GetConn returned to them
Holders == {t \in Callers : sqlPc[t] \in {"assert", "query", "dtor"} /\ sql[t] # nullptr}

\* the connections in the queue
Queued == {connQue_[i] : i \in 1..Len(connQue_)} \ {nullptr}

C32_SemaphoreGuardsQueue ==
    /\ semId_ + Cardinality(Popping) <= Len(connQue_)
    /\ \A t \in Popping : connQue_ # <<>>
    /\ \A t, u \in Holders : t # u => sql[t] # sql[u]
    /\ \A t \in Holders : sql[t] \notin Queued

\* two threads hold different connections while a third, which passed the
\* emptiness test before the queue was emptied, waits at the semaphore
C32_AllLeasedOneWaiting ==
    /\ ~dead
    /\ Cardinality(Holders) = MaxConn
    /\ connQue_ = <<>>
    /\ semId_ = 0
    /\ \E t \in Callers : sqlPc[t] = "sem_wait"

(***************************************************************************)
(* C33: while the queue is open no wakeup is lost: under fair scheduling   *)
(* a producer that waits in push_back on a full queue completes its push   *)
(* in the end, the consumer popping, and a consumer that waits in pop      *)
(* returns an item in the end once a producer has pushed; and the items    *)
(* of push_back are popped in the order in which they were pushed.         *)
(***************************************************************************)
IsPushBack(e) == e.op = "push_back"

IsPop(e) == e.op = "pop"

\* the items of the events of h, in their order
Items(h) == [i \in 1..Len(h) |-> h[i].item]

\* the items push_back put in, in the order of the pushes
PushedBack == Items(SelectSeq(qHist, IsPushBack))

\* the items pop returned, in the order of the pops
Popped == Items(SelectSeq(qHist, IsPop))

\* the items of s that are elements of S, in their order
RECURSIVE Only(_, _)
Only(s, S) ==
    IF s = <<>> THEN <<>>
    ELSE (IF Head(s) \in S THEN <<Head(s)>> ELSE <<>>) \o Only(Tail(s), S)

\* s is the beginning of r
IsPrefix(s, r) == Len(s) <= Len(r) /\ SubSeq(r, 1, Len(s)) = s

\* the push_back items that were popped came out in the order of their pushes
PoppedInPushOrder ==
    IsPrefix(Only(Popped, {PushedBack[i] : i \in 1..Len(PushedBack)}), PushedBack)

FileServed == made.opened /\ ~made.mapFailed

\* the bytes after the empty line begin as the error body of status c does
InlineNames(c) ==
    StartsWith(AfterHead(made.out),
               "<html><title>Error</title><body bgcolor=\"ffffff\">"
               \o to_string(c) \o " : " \o StatusText[c] \o "\n")

\* the body goes with status c: the page of c, or the inline body of c
BodyOfStatus(c) ==
    IF FileServed
    THEN c \in DOMAIN CODE_PATH /\ resp.path_ = CODE_PATH[c]
    ELSE InlineNames(c)

C34_ErrorBodyOfStatus ==
    (lastOp = "MakeResponse" /\ resp.code_ # 200) => BodyOfStatus(resp.code_)

\* the above for the calls that found a code with a status text, or none
C34_ErrorBodyForKnownCodes ==
    (/\ lastOp = "MakeResponse"
     /\ resp.code_ # 200
     /\ made.code \in CODE_STATUS \cup {-1}) => BodyOfStatus(resp.code_)

\* the file of the request was served with the status line of 400
C34_FileUnderBadRequest ==
    /\ lastOp = "MakeResponse"
    /\ made.code = 302
    /\ StatusLine = "HTTP/1.1 400 Bad Request"
    /\ FileServed
    /\ resp.path_ = RequestPath
    /\ resp.mmFile_ \in maps.live

\* the page of 404 was served for a file that is missing
C34_PageOfNotFound ==
    /\ lastOp = "MakeResponse"
    /\ resp.code_ = 404
    /\ FileServed
    /\ resp.path_ = "/404.html"
====
